---- MODULE Spec2Model ----
(***************************************************************************)
(* A model of the query pipeline of financial-rag-graph: the read-only    *)
(* safety policy of SQLiteTool, the DBExecutor wrapper, the template SQL   *)
(* planner, the keyword intent parser and the GraphBuilder orchestrator.   *)
(*                                                                         *)
(* Texts (user queries, SQL, error messages) are TLA+ strings and the      *)
(* string functions of the code are computed character by character.       *)
(* A Python Optional is a sequence of length 0 (None) or 1 (a value).      *)
(***************************************************************************)
EXTENDS Integers, Sequences, FiniteSets, TLC

VARIABLES
    pc,            \* position of the invocation in the compiled graph / of a direct call
    state,         \* the GraphState the nodes pass on
    returned,      \* the Answer run_query returned, once it has
    call,          \* the last call made on the tools: operation, input, outcome
    engine_calls,  \* every statement handed to sqlite3's cursor.execute, in order
    planner_calls, \* how often generate_sql_plan was called
    visited,       \* the nodes that ran, in order
    error_log,     \* every change of the error slot: the node and the message it wrote
    tool,          \* the SQLiteTool that threads share: its _connection_pool
    workers,       \* per thread: where it is in SQLiteTool.execute, the connection it got
    resolver,      \* the CategoryResolver that threads share: its three tables
    writer         \* the thread inside add_synonym: its arguments and how far it got

vars == <<pc, state, returned, call, engine_calls, planner_calls, visited, error_log,
          tool, workers, resolver, writer>>

\* the objects that threads share and the threads at work on them
shared_vars == <<tool, workers, resolver, writer>>

\* the variables of a pipeline invocation, idle during direct calls on the tools
run_vars == <<state, returned, planner_calls, visited, error_log>>

None == <<>>
Some(v) == <<v>>

-----------------------------------------------------------------------------
(* Bounds of the model *)

\* how many pieces of QueryChunks a caller-supplied statement is built from
MaxChunks == 3
\* the largest number of rows the storage engine returns
MaxRows == 2

-----------------------------------------------------------------------------
(* Python str / re primitives *)

Char(s, i) == SubSeq(s, i, i)

MatchAt(s, i, p) == i >= 1 /\ i + Len(p) - 1 <= Len(s) /\ SubSeq(s, i, i + Len(p) - 1) = p

\* p in s
Contains(s, p) == \E i \in 1..(Len(s) - Len(p) + 1) : MatchAt(s, i, p)

\* s.startswith(p)
StartsWith(s, p) == MatchAt(s, 1, p)

UpperChars == "ABCDEFGHIJKLMNOPQRSTUVWXYZ"
LowerChars == "abcdefghijklmnopqrstuvwxyz"
DigitChars == "0123456789"

IndexIn(alphabet, c) == {i \in 1..Len(alphabet) : Char(alphabet, i) = c}

LowerChar(c) ==
    IF IndexIn(UpperChars, c) # {}
    THEN Char(LowerChars, CHOOSE i \in IndexIn(UpperChars, c) : TRUE)
    ELSE c

\* s.lower()
RECURSIVE Lower(_)
Lower(s) ==
    IF Len(s) = 0 THEN ""
    ELSE IF Len(s) = 1 THEN LowerChar(s)
    ELSE Lower(SubSeq(s, 1, Len(s) \div 2)) \o Lower(SubSeq(s, Len(s) \div 2 + 1, Len(s)))

\* \w of the re module (ASCII part)
IsWordChar(c) ==
    \/ IndexIn(LowerChars, c) # {}
    \/ IndexIn(UpperChars, c) # {}
    \/ IndexIn(DigitChars, c) # {}
    \/ c = "_"

\* \s of the re module, the characters str.strip() removes
SpaceChars == {" ", "\n", "\t", "\r", "\f"}

\* re.search(r'\bw\b', s) for a word w of word characters
HasWholeWord(s, w) ==
    \E i \in 1..(Len(s) - Len(w) + 1) :
        /\ MatchAt(s, i, w)
        /\ (i = 1 \/ ~IsWordChar(Char(s, i - 1)))
        /\ (i + Len(w) - 1 = Len(s) \/ ~IsWordChar(Char(s, i + Len(w))))

Min(S) == CHOOSE x \in S : \A y \in S : x <= y

\* s from the first to the last of the positions keep
Between(s, keep) == IF keep = {} THEN "" ELSE SubSeq(s, Min(keep), -Min({-i : i \in keep}))

\* s.strip()
Strip(s) == Between(s, {i \in 1..Len(s) : Char(s, i) \notin SpaceChars})

\* the least of the positions hits, 0 when there is none
FirstOf(hits) == IF hits = {} THEN 0 ELSE Min(hits)

\* the first position >= from where p occurs in s, 0 when there is none
FindFrom(s, p, from) == FirstOf({i \in from..(Len(s) - Len(p) + 1) : MatchAt(s, i, p)})

\* where the comment that starts at i ends (its last character), 0 when position i
\* starts no match of --.*?\n|/\*.*?\*/ (DOTALL, lazy)
CommentEnd(s, i) ==
    IF MatchAt(s, i, "--") /\ FindFrom(s, "\n", i + 2) # 0
        THEN FindFrom(s, "\n", i + 2)
    ELSE IF MatchAt(s, i, "/*") /\ FindFrom(s, "*/", i + 2) # 0
        THEN FindFrom(s, "*/", i + 2) + 1
    ELSE 0

\* re.sub(r'--.*?\n|/\*.*?\*/', '', s, flags=re.DOTALL): leftmost matches,
\* scanning on after each one
RECURSIVE StripComments(_)
\* s without the comment that starts at i and without the comments after it
StripCommentAt(s, i) ==
    IF i = 0 THEN s
    ELSE SubSeq(s, 1, i - 1) \o StripComments(SubSeq(s, CommentEnd(s, i) + 1, Len(s)))

StripComments(s) == StripCommentAt(s, FirstOf({i \in 1..Len(s) : CommentEnd(s, i) # 0}))

-----------------------------------------------------------------------------
(* SQLiteTool: the safety policy *)

blocked_operations ==
    <<"drop", "alter", "delete", "insert", "update", "replace",
      "create", "attach", "detach", "vacuum", "pragma", "reindex">>

\* a variant of the check that looks for 'select' anywhere instead of at the start
IsSafeQuery_SelectAnywhere(query) ==
    \E q \in {Lower(StripComments(query))} :
        /\ \A k \in 1..Len(blocked_operations) : ~HasWholeWord(q, blocked_operations[k])
        /\ Contains(Strip(q), "select")

\* SQLiteTool._is_safe_query; q is the text without comments, in lower case
IsSafeQuery(query) ==
    \E q \in {Lower(StripComments(query))} :
        /\ \A k \in 1..Len(blocked_operations) : ~HasWholeWord(q, blocked_operations[k])
        /\ StartsWith(Strip(q), "select")

-----------------------------------------------------------------------------
(* The storage engine (sqlite3), an external collaborator: cursor.execute either *)
(* raises sqlite3.Error or yields rows under some column names.                  *)

Range(f) == {f[i] : i \in DOMAIN f}

\* _should_generate_chart: the most categories a chart is drawn for
ChartedCategories == 20

\* what cursor.execute does: it fails, or it returns a few rows, or as many rows as
\* are still charted, or one more
EngineOutcomes ==
    {[ok |-> FALSE, columns |-> <<>>, n |-> 0]}
    \cup {[ok |-> TRUE, columns |-> cols, n |-> k] : cols \in {<<"time_period", "total_amount">>, <<"category", "total_amount">>},
          k \in (0..MaxRows) \cup {ChartedCategories, ChartedCategories + 1}}

SqliteErrorText == "sqlite3 error"

\* [dict(row) for row in cursor.fetchall()]: row i as a mapping column -> stored value
EngineRows(eng) == [i \in 1..eng.n |-> [c \in Range(eng.columns) |-> 100 * i]]

\* one entry of the log of cursor.execute calls; supplied: the statement text is the
\* caller's argument, passed on as it came
EngineCall(sql, via, supplied) == [sql |-> sql, via |-> via, supplied |-> supplied]

-----------------------------------------------------------------------------
(* SQLiteTool *)

UnsafeMessage == "Query contains unsafe operations"

\* SQLiteTool.execute: what the call does, given what the engine would answer.
\* raised: it raised ValueError(msg); reached: cursor.execute was called
SQLiteToolExecute(query, params, eng) ==
    IF ~IsSafeQuery(query)
    THEN [raised |-> TRUE, msg |-> UnsafeMessage, reached |-> FALSE,
          rows |-> <<>>, columns |-> <<>>]
    ELSE IF ~eng.ok
    THEN [raised |-> TRUE, msg |-> "Database error: " \o SqliteErrorText, reached |-> TRUE,
          rows |-> <<>>, columns |-> <<>>]
    ELSE [raised |-> FALSE, msg |-> "", reached |-> TRUE,
          rows |-> EngineRows(eng), columns |-> eng.columns]

\* re.match(r'^[a-zA-Z_]\w*$', table_name): $ also matches before one final newline
IsIdentifier(name) ==
    LET body == IF Len(name) > 1 /\ Char(name, Len(name)) = "\n"
                THEN SubSeq(name, 1, Len(name) - 1) ELSE name
    IN  /\ Len(body) >= 1
        /\ IsWordChar(Char(body, 1))
        /\ IndexIn(DigitChars, Char(body, 1)) = {}
        /\ \A i \in 1..Len(body) : IsWordChar(Char(body, i))



-----------------------------------------------------------------------------
(* DBExecutor *)

QueryResult(rows, columns, sql, params, error) ==
    [rows |-> rows, columns |-> columns, rowcount |-> Len(rows),
     sql |-> sql, params |-> params, error |-> error]

\* dict(zip(columns, row)) for a row that is itself a dict: zip walks the row's keys,
\* so every column is paired with a column name, not with the stored value
ZipRow(columns, row) == [c \in Range(columns) |-> c]

\* a variant of the except block that returns the empty result without the error
WrapResult_DropError(sql, params, r) ==
    IF r.raised
    THEN QueryResult(<<>>, <<>>, sql, params, None)
    ELSE QueryResult([i \in 1..Len(r.rows) |-> ZipRow(r.columns, r.rows[i])],
                     r.columns, sql, params, None)

\* DBExecutor.execute_query from the return of SQLiteTool.execute on: r is what
\* the call did
WrapResult(sql, params, r) ==
    IF r.raised
    THEN QueryResult(<<>>, <<>>, sql, params, Some(r.msg))
    ELSE QueryResult([i \in 1..Len(r.rows) |-> ZipRow(r.columns, r.rows[i])],
                     r.columns, sql, params, None)

\* DBExecutor.execute_query (and the module-level execute_query around it)
ExecuteQuery(sql, params, eng) == WrapResult(sql, params, SQLiteToolExecute(sql, params, eng))

-----------------------------------------------------------------------------
(* datetime: a date is its proleptic Gregorian ordinal (date.toordinal()), a *)
(* timedelta a number of days; every datetime of the parser is at midnight.  *)

\* str(n) for an integer
RECURSIVE IntToStr(_)
IntToStr(n) ==
    IF n < 0 THEN "-" \o IntToStr(-n)
    ELSE IF n < 10 THEN Char(DigitChars, n + 1)
    ELSE IntToStr(n \div 10) \o Char(DigitChars, (n % 10) + 1)

\* n written with at least w digits, as strftime's %Y (4), %m and %d (2) do
RECURSIVE Pad(_, _)
Pad(n, w) == IF Len(IntToStr(n)) >= w THEN IntToStr(n) ELSE "0" \o Pad(n, w - 1)

\* (year, month, day) of an ordinal; the year is counted from 1 March, in eras of
\* 400 years: doe and yoe are the day and the year of the era, doy the day of the
\* year, mp the month counted from March
CivilOfMonth(y, doy, mp) ==
    [year |-> y + (IF mp < 10 THEN 0 ELSE 1),
     month |-> IF mp < 10 THEN mp + 3 ELSE mp - 9,
     day |-> doy - (153 * mp + 2) \div 5 + 1]

CivilOfDay(y, doy) == CivilOfMonth(y, doy, (5 * doy + 2) \div 153)

CivilOfYear(era, doe, yoe) ==
    CivilOfDay(yoe + era * 400, doe - (365 * yoe + yoe \div 4 - yoe \div 100))

CivilOfEra(era, doe) ==
    CivilOfYear(era, doe, (doe - doe \div 1460 + doe \div 36524 - doe \div 146096) \div 365)

Civil(ord) == CivilOfEra((ord + 305) \div 146097, (ord + 305) % 146097)

\* the ordinal of day d of month mp (counted from March) of the year yy that began
\* on 1 March
OrdinalOfMarchYear(yy, mp, d) ==
    (yy \div 400) * 146097 + (yy % 400) * 365 + (yy % 400) \div 4 - (yy % 400) \div 100
    + (153 * mp + 2) \div 5 + d - 1 - 305

\* datetime(y, m, d).toordinal()
Ordinal(y, m, d) ==
    OrdinalOfMarchYear(IF m <= 2 THEN y - 1 ELSE y, IF m > 2 THEN m - 3 ELSE m + 9, d)

DateText(c) == Pad(c.year, 4) \o "-" \o Pad(c.month, 2) \o "-" \o Pad(c.day, 2)

\* dt.strftime("%Y-%m-%d")
DateStr(ord) == DateText(Civil(ord))

-----------------------------------------------------------------------------
(* Python dict and str helpers *)

Has(d, k) == k \in DOMAIN d

\* d.get(k, default)
Get(d, k, default) == IF Has(d, k) THEN d[k] ELSE default

EmptyDict == <<>>

\* {**a, **b}
Merge(a, b) == [k \in DOMAIN a \cup DOMAIN b |-> IF k \in DOMAIN b THEN b[k] ELSE a[k]]

\* s.replace(old, "")
RECURSIVE Remove(_, _)
Remove(s, old) ==
    LET i == FindFrom(s, old, 1)
    IN  IF i = 0 THEN s
        ELSE SubSeq(s, 1, i - 1) \o Remove(SubSeq(s, i + Len(old), Len(s)), old)

\* sep.join(items)
RECURSIVE Join(_, _)
Join(sep, items) ==
    IF Len(items) = 0 THEN ""
    ELSE IF Len(items) = 1 THEN items[1]
    ELSE items[1] \o sep \o Join(sep, Tail(items))

RECURSIVE ParseInt(_)
ParseInt(s) ==
    IF Len(s) = 0 THEN 0
    ELSE 10 * ParseInt(SubSeq(s, 1, Len(s) - 1))
         + (CHOOSE i \in IndexIn(DigitChars, Char(s, Len(s))) : TRUE) - 1

\* a raised exception / a returned value
Raise(msg) == [raised |-> TRUE, msg |-> msg]
Return(v) == [raised |-> FALSE, msg |-> "", value |-> v]

\* str(x) of an Optional[int] inside an f-string
OptIntStr(x) == IF x = None THEN "None" ELSE IntToStr(x[1])

-----------------------------------------------------------------------------
(* SQLPlanner *)

\* SQLPlanner._get_time_expression; granularity is Optional
GetTimeExpression(granularity) ==
    IF granularity = Some("day") THEN "date"
    ELSE IF granularity = Some("week") THEN "date(date, 'weekday 0', '-6 days')"
    ELSE IF granularity = Some("month") THEN "strftime('%Y-%m', date)"
    ELSE IF granularity = Some("quarter")
        THEN "strftime('%Y', date) || '-Q' || ((strftime('%m', date) + 2) / 3)"
    ELSE IF granularity = Some("year") THEN "strftime('%Y', date)"
    ELSE "strftime('%Y-%m', date)"

\* the templates of SQLPlanner._init_templates, filled in as str.format does
\* (the indentation inside the triple-quoted text is left out)
TemplateSpendingOverTime(time_expr, select_expression, table_name, where_clause) ==
    "\nSELECT \n" \o time_expr \o " AS time_period,\n" \o select_expression
    \o "\nFROM " \o table_name \o "\n" \o where_clause
    \o "\nGROUP BY time_period\nORDER BY time_period\n"

TemplateSpendingByCategory(select_expression, table_name, where_clause, order_expression, limit_clause) ==
    "\nSELECT \ncategory,\n" \o select_expression
    \o "\nFROM " \o table_name \o "\n" \o where_clause
    \o "\nGROUP BY category\nORDER BY " \o order_expression \o " DESC\n" \o limit_clause \o "\n"

TemplateTopItems(dimension, select_expression, table_name, where_clause, order_expression, limit) ==
    "\nSELECT \n" \o dimension \o ",\n" \o select_expression
    \o "\nFROM " \o table_name \o "\n" \o where_clause
    \o "\nGROUP BY " \o dimension \o "\nORDER BY " \o order_expression \o " DESC\nLIMIT "
    \o limit \o "\n"

TemplateComparison(select_expression, table_name, current_where_clause, previous_where_clause, group_by_clause) ==
    "\nWITH current_period AS (\nSELECT \n" \o select_expression \o " as current_value\nFROM "
    \o table_name \o "\n" \o current_where_clause \o "\n" \o group_by_clause
    \o "\n),\nprevious_period AS (\nSELECT \n" \o select_expression \o " as previous_value\nFROM "
    \o table_name \o "\n" \o previous_where_clause \o "\n" \o group_by_clause
    \o "\n)\nSELECT \ncurrent_period.*,\nprevious_period.previous_value,\n"
    \o "(current_period.current_value - previous_period.previous_value) as difference,\n"
    \o "(current_period.current_value / NULLIF(previous_period.previous_value, 0) - 1) * 100 as pct_change\n"
    \o "FROM current_period\nLEFT JOIN previous_period ON 1=1\n"

\* float(x) for the text of a number
FloatOf(x) ==
    IF Len(x) >= 1 /\ (\A i \in 1..Len(x) : IndexIn(DigitChars, Char(x, i)) # {})
    THEN Return(ParseInt(x))
    ELSE Raise("could not convert string to float: '" \o x \o "'")

CategoryName(i) == "category_" \o IntToStr(i - 1)

\* the conditions and params one filter adds
TimeStartPart(intent) ==
    LET tr == Get(intent, "time_range", <<None, None>>)
    IN  IF tr[1] # None
        THEN [conds |-> <<"date >= :time_start">>, params |-> "time_start" :> DateStr(tr[1][1])]
        ELSE [conds |-> <<>>, params |-> EmptyDict]

\* a variant that adds the upper-bound condition and forgets to bind its value
TimeEndPart_Unbound(intent) ==
    LET tr == Get(intent, "time_range", <<None, None>>)
    IN  IF tr[2] # None
        THEN [conds |-> <<"date <= :time_end">>, params |-> EmptyDict]
        ELSE [conds |-> <<>>, params |-> EmptyDict]

TimeEndPart(intent) ==
    LET tr == Get(intent, "time_range", <<None, None>>)
    IN  IF tr[2] # None
        THEN [conds |-> <<"date <= :time_end">>, params |-> "time_end" :> DateStr(tr[2][1])]
        ELSE [conds |-> <<>>, params |-> EmptyDict]

\* a variant that writes the category values into the text instead of binding them
CategoryPart_Inline(intent) ==
    LET filters == Get(intent, "filters", EmptyDict)
        categories == Get(filters, "category", <<>>)
    IN  IF Has(filters, "category") /\ Len(categories) > 0
        THEN [conds |-> <<"category IN ("
                          \o Join(", ", [i \in 1..Len(categories) |-> "'" \o categories[i] \o "'"])
                          \o ")">>,
              params |-> EmptyDict]
        ELSE [conds |-> <<>>, params |-> EmptyDict]

CategoryPart(intent) ==
    LET filters == Get(intent, "filters", EmptyDict)
        categories == Get(filters, "category", <<>>)
    IN  IF Has(filters, "category") /\ Len(categories) > 0
        THEN [conds |-> <<"category IN ("
                          \o Join(", ", [i \in 1..Len(categories) |-> ":" \o CategoryName(i)])
                          \o ")">>,
              params |-> [k \in {CategoryName(i) : i \in 1..Len(categories)} |->
                            categories[CHOOSE i \in 1..Len(categories) : CategoryName(i) = k]]]
        ELSE [conds |-> <<>>, params |-> EmptyDict]

AmountPart(intent, key, op) ==
    LET filters == Get(intent, "filters", EmptyDict)
    IN  IF Has(filters, key)
        THEN [conds |-> <<"amount " \o op \o " :" \o key>>,
              params |-> key :> FloatOf(filters[key]).value]
        ELSE [conds |-> <<>>, params |-> EmptyDict]

\* the parts of the clause in the order _build_where_clause appends them
WhereParts(intent) ==
    <<TimeStartPart(intent), TimeEndPart(intent), CategoryPart(intent),
      AmountPart(intent, "min_amount", ">="), AmountPart(intent, "max_amount", "<=")>>

\* "WHERE " + " AND ".join(conditions) if conditions else ""
WhereText(conds) == IF Len(conds) > 0 THEN "WHERE " \o Join(" AND ", conds) ELSE ""

WhereOf(parts) ==
    [clause |-> WhereText(parts[1].conds \o parts[2].conds \o parts[3].conds
                          \o parts[4].conds \o parts[5].conds),
     params |-> Merge(Merge(Merge(Merge(parts[1].params, parts[2].params), parts[3].params),
                            parts[4].params),
                      parts[5].params)]

\* float(filters[key]) fails
BadAmount(filters, key) == Has(filters, key) /\ FloatOf(filters[key]).raised

\* SQLPlanner._build_where_clause
BuildWhereClause(intent) ==
    IF BadAmount(Get(intent, "filters", EmptyDict), "min_amount")
    THEN Raise(FloatOf(intent["filters"]["min_amount"]).msg)
    ELSE IF BadAmount(Get(intent, "filters", EmptyDict), "max_amount")
    THEN Raise(FloatOf(intent["filters"]["max_amount"]).msg)
    ELSE Return(WhereOf(WhereParts(intent)))

Plan(query, params) == [query |-> query, params |-> params]

\* the plans of the four templates, w being what _build_where_clause did
FillSpendingOverTime(intent, table_name, w) ==
    IF w.raised THEN w
    ELSE Return(Plan(TemplateSpendingOverTime(
                        GetTimeExpression(Get(intent, "time_granularity", Some("month"))),
                        "SUM(amount) as total_amount", table_name, w.value.clause),
                     w.value.params))

FillSpendingByCategory(intent, table_name, w) ==
    IF w.raised THEN w
    ELSE Return(Plan(TemplateSpendingByCategory(
                        "SUM(amount) as total_amount", table_name, w.value.clause, "total_amount",
                        IF Has(intent, "limit")
                        THEN "LIMIT " \o OptIntStr(Get(intent, "limit", Some(20)))
                        ELSE ""),
                     w.value.params))

FillTopItems(intent, table_name, dimensions, w) ==
    IF Len(dimensions) = 0 THEN Raise("list index out of range")
    ELSE IF w.raised THEN w
    ELSE Return(Plan(TemplateTopItems(
                        dimensions[1], "SUM(amount) as total_amount", table_name, w.value.clause,
                        "total_amount", OptIntStr(Get(intent, "limit", Some(10)))),
                     w.value.params))

\* {f"prev_{k}": v for k, v in params.items()}
Prefixed(params) ==
    [k2 \in {"prev_" \o k : k \in DOMAIN params} |->
        params[CHOOSE k \in DOMAIN params : "prev_" \o k = k2]]

ComparisonSelect(intent) ==
    IF Get(intent, "intent_type", None) = Some("spending_by_category")
    THEN "category, SUM(amount) as total_amount"
    ELSE GetTimeExpression(Get(intent, "time_granularity", Some("month")))
         \o " AS time_period, SUM(amount) as total_amount"

ComparisonGroupBy(intent) ==
    IF Get(intent, "intent_type", None) = Some("spending_by_category")
    THEN "GROUP BY category" ELSE "GROUP BY time_period"

\* _plan_comparison from the two where clauses on: cur and prev are what
\* _build_where_clause did for the current and for the previous period
FillComparison(intent, table_name, cur, prev) ==
    IF cur.raised THEN cur
    ELSE IF prev.raised THEN prev
    ELSE Return(Plan(TemplateComparison(
                        ComparisonSelect(intent), table_name,
                        Remove(cur.value.clause, "WHERE "),
                        Remove(prev.value.clause, "WHERE "), ComparisonGroupBy(intent)),
                     Merge(cur.value.params, Prefixed(prev.value.params))))

\* _plan_comparison from the unpacking of the two ranges on
CheckComparison(intent, table_name, current, period) ==
    IF period = None THEN Raise("cannot unpack non-iterable NoneType object")
    ELSE IF None \in {current[1], current[2], period[1], period[2]}
    THEN Raise("Invalid time range for comparison")
    ELSE FillComparison(intent, table_name, BuildWhereClause(intent),
                        BuildWhereClause([intent EXCEPT !["time_range"] = period]))

\* SQLPlanner._plan_comparison
PlanComparison(intent, table_name) ==
    IF ~Has(intent, "time_range") THEN Raise("'time_range'")
    ELSE CheckComparison(intent, table_name, intent["time_range"],
                         Get(intent, "comparison_period", <<None, None>>))

\* SQLPlanner.plan_sql: the dispatch on intent_type
PlanSql(intent, table_name) ==
    IF Get(intent, "intent_type", None) = Some("spending_over_time")
    THEN FillSpendingOverTime(intent, table_name, BuildWhereClause(intent))
    ELSE IF Get(intent, "intent_type", None) = Some("spending_by_category")
    THEN FillSpendingByCategory(intent, table_name, BuildWhereClause(intent))
    ELSE IF Get(intent, "intent_type", None) = Some("top_items")
    THEN FillTopItems(intent, table_name, Get(intent, "dimensions", <<"merchant">>), BuildWhereClause(intent))
    ELSE IF Get(intent, "is_comparison", FALSE)
    THEN PlanComparison(intent, table_name)
    ELSE FillSpendingOverTime(intent, table_name, BuildWhereClause(intent))

\* generate_sql_plan: plan_sql(intent, table_name="expenses") wrapped in an SQLPlan
GenerateSqlPlan(intent) == PlanSql(intent, "expenses")

\* _plan_comparison gets as far as its lines 193-194, where it derives the intent of
\* the previous period: the dispatch of plan_sql chose it, both ranges unpacked with
\* all four ends present, and the where clause of the current period was built
DerivesPrevIntent(intent) ==
    /\ Get(intent, "intent_type", None) \notin
            {Some("spending_over_time"), Some("spending_by_category"), Some("top_items")}
    /\ Get(intent, "is_comparison", FALSE)
    /\ Has(intent, "time_range")
    /\ Get(intent, "comparison_period", <<None, None>>) # None
    /\ None \notin {intent["time_range"][1], intent["time_range"][2],
                    Get(intent, "comparison_period", <<None, None>>)[1],
                    Get(intent, "comparison_period", <<None, None>>)[2]}
    /\ ~BuildWhereClause(intent).raised

\* the dict that prev_intent names at line 194: intent.copy() is a new dict, so the
\* store prev_intent["time_range"] = ... does not land in the caller's intent
PrevIntentIs_Alias == "intent"

PrevIntentIs == "copy"

\* the caller's intent dict as plan_sql leaves it: line 194 is the planner's only
\* store into a dict, every other statement reads the intent
IntentAfterPlanSql(intent) ==
    IF DerivesPrevIntent(intent) /\ PrevIntentIs = "intent"
    THEN [intent EXCEPT !["time_range"] = intent["comparison_period"]]
    ELSE intent

-----------------------------------------------------------------------------
(* intent_parser *)

\* any(word in query for word in words)
AnyIn(query, words) == \E w \in words : Contains(query, w)

DigitSet == {Char(DigitChars, i) : i \in 1..Len(DigitChars)}

\* the end of the longest run of characters of the class that starts at i
\* (i - 1 when there is none)
RunEnd(s, i, class) ==
    CHOOSE j \in (i - 1)..Len(s) :
        /\ \A k \in i..j : Char(s, k) \in class
        /\ (j = Len(s) \/ Char(s, j + 1) \notin class)

\* the positions at which r'top\s+(\d+)' matches
TopMatches(query) ==
    {i \in 1..Len(query) :
        /\ MatchAt(query, i, "top")
        /\ RunEnd(query, i + 3, SpaceChars) >= i + 3
        /\ RunEnd(query, RunEnd(query, i + 3, SpaceChars) + 1, DigitSet)
             > RunEnd(query, i + 3, SpaceChars)}

\* int() of the digits of s from position d on
IntAt(s, d) == ParseInt(SubSeq(s, d, RunEnd(s, d, DigitSet)))

\* int(match.group(1)) of re.search(r'top\s+(\d+)', query), or the default 10
TopLimit(query) ==
    IF TopMatches(query) = {} THEN 10
    ELSE IntAt(query, RunEnd(query, Min(TopMatches(query)) + 3, SpaceChars) + 1)

\* today.replace(day=1)
FirstOfMonth(day) == Ordinal(Civil(day).year, Civil(day).month, 1)

\* _extract_time_range, with today = datetime.now() at midnight
ExtractTimeRange(query, today) ==
    IF Contains(query, "last month")
    THEN <<Some(FirstOfMonth(FirstOfMonth(today) - 1)), Some(FirstOfMonth(today) - 1)>>
    ELSE IF Contains(query, "this month")
    THEN <<Some(FirstOfMonth(today)), Some(today)>>
    ELSE IF Contains(query, "last 30 days") \/ Contains(query, "past month")
    THEN <<Some(today - 30), Some(today)>>
    ELSE IF Contains(query, "last 7 days") \/ Contains(query, "past week")
    THEN <<Some(today - 7), Some(today)>>
    ELSE IF Contains(query, "yesterday")
    THEN <<Some(today - 1), Some(today - 1)>>
    ELSE <<Some(today - 30), Some(today)>>

\* _extract_time_granularity
ExtractTimeGranularity(query) ==
    IF AnyIn(query, {"daily", "day by day", "each day"}) THEN Some("day")
    ELSE IF AnyIn(query, {"weekly", "week by week", "each week"}) THEN Some("week")
    ELSE IF AnyIn(query, {"monthly", "month by month", "each month"}) THEN Some("month")
    ELSE IF AnyIn(query, {"quarterly", "quarter by quarter"}) THEN Some("quarter")
    ELSE IF AnyIn(query, {"yearly", "annually", "year by year"}) THEN Some("year")
    ELSE None

\* a variant of _extract_comparison_period that leaves one day between the periods
ExtractComparisonPeriod_Gap(query, current_range) ==
    IF None \in Range(current_range) THEN None
    ELSE LET start == current_range[1][1]
             end == current_range[2][1]
         IN  <<Some(start - 1 - (end - start)), Some(start - 1)>>

\* _extract_comparison_period
ExtractComparisonPeriod(query, current_range) ==
    IF None \in Range(current_range) THEN None
    ELSE LET start == current_range[1][1]
             end == current_range[2][1]
             duration == end - start
         IN  <<Some(start - duration), Some(start)>>

\* parse_intent, step 1 with the comparison rule tried before the two others
IntentRule_CompareFirst(query) ==
    IF AnyIn(query, {"compare", "vs", "versus"}) THEN "comparison"
    ELSE IF AnyIn(query, {"by category", "per category", "categories"}) THEN "spending_by_category"
    ELSE IF AnyIn(query, {"top ", "highest ", "most expensive"}) THEN "top_items"
    ELSE "spending_over_time"

\* parse_intent, step 1: the first rule of the if/elif chain that matches
IntentRule(query) ==
    IF AnyIn(query, {"by category", "per category", "categories"}) THEN "spending_by_category"
    ELSE IF AnyIn(query, {"top ", "highest ", "most expensive"}) THEN "top_items"
    ELSE IF AnyIn(query, {"compare", "vs", "versus"}) THEN "comparison"
    ELSE "spending_over_time"

\* parse_intent, step 4: the dimensions added when "by" is in the query
ByDimensions(query) ==
    IF ~Contains(query, "by") THEN <<>>
    ELSE (IF Contains(query, "category") \/ AnyIn(query, {"categories", "type"})
          THEN <<"category">> ELSE <<>>)
         \o (IF Contains(query, "merchant") \/ Contains(query, "store")
             THEN <<"merchant">> ELSE <<>>)

\* the intent parse_intent returns: query is the text in lower case, rule the
\* intent type of step 1 and time_range the range of step 2
IntentOf(query, rule, time_range) ==
    [intent_type |-> Some(rule),
     time_range |-> time_range,
     time_granularity |-> ExtractTimeGranularity(query),
     dimensions |-> (IF rule = "spending_by_category" THEN <<"category">> ELSE <<>>)
                    \o ByDimensions(query),
     metrics |-> <<"amount">>,
     filters |-> EmptyDict,
     limit |-> IF rule = "top_items" THEN Some(TopLimit(query)) ELSE None,
     is_comparison |-> rule = "comparison",
     comparison_period |-> IF rule = "comparison"
                           THEN ExtractComparisonPeriod(query, time_range)
                           ELSE None]

ParseLowered(query, today) == IntentOf(query, IntentRule(query), ExtractTimeRange(query, today))

\* parse_intent(query), with today = datetime.now() at midnight
ParseIntent(text, today) == ParseLowered(Lower(text), today)

-----------------------------------------------------------------------------
(* GraphBuilder: the nodes of the orchestrator, each a function of the state *)

\* bool(x) of an Optional[str]
Truthy(x) == x # None /\ x[1] # ""

\* GraphState(user_query={"text": query_text}, metadata={"start_time": ...}).
\* coerced: the user_query slot holds a UserQuery object built from the mapping
\* (the field is declared Optional[UserQuery]); otherwise it holds the mapping
GraphState(query_text, coerced) ==
    [user_query |-> [text |-> query_text, coerced |-> coerced],
     sql_plan |-> None, results |-> None, chart_spec |-> None, answer |-> None,
     error |-> None, metadata |-> ("start_time" :> "2025-10-23T16:01:00-03:00")]

Answer(markdown) == [markdown |-> markdown, artifacts |-> <<>>, source_data |-> None]

\* what a node did besides changing the state: compiled, it called generate_sql_plan;
\* db, the QueryResult of its call of db_execute_query, if it made one
Out(s, compiled, db) == [state |-> s, compiled |-> compiled, db |-> db]

\* _parse_intent
ParseIntentNode(s, today) ==
    IF s.user_query.coerced
    THEN Out([s EXCEPT !.error =
                 Some("Error parsing intent: 'UserQuery' object has no attribute 'get'")],
             FALSE, None)
    ELSE IF s.user_query.text = ""
    THEN Out([s EXCEPT !.error = Some("No query provided")], FALSE, None)
    ELSE Out([s EXCEPT !.metadata = Merge(@, "intent" :> ParseIntent(s.user_query.text, today))],
             FALSE, None)

\* _resolve_categories; parse_intent leaves filters empty, so the intent of the
\* state has no 'category' filter and the resolver is not called
ResolveCategoriesNode(s) ==
    IF Truthy(s.error) THEN Out(s, FALSE, None)
    ELSE IF ~Has(s.metadata, "intent")
    THEN Out([s EXCEPT !.error = Some("No intent found to resolve categories from")], FALSE, None)
    ELSE Out(s, FALSE, None)

\* _plan_sql, from the return of generate_sql_plan on: r is what the call did
PlanSqlStored(s, r) ==
    IF r.raised
    THEN Out([s EXCEPT !.error = Some("Error planning SQL: " \o r.msg)], TRUE, None)
    ELSE Out([s EXCEPT !.sql_plan = Some(r.value),
                       !.metadata = Merge(@, ("sql" :> r.value.query)
                                             @@ ("params" :> r.value.params))],
             TRUE, None)

\* _plan_sql
PlanSqlNode(s) ==
    IF Truthy(s.error) THEN Out(s, FALSE, None)
    ELSE IF ~Has(s.metadata, "intent")
    THEN Out([s EXCEPT !.error = Some("No intent found for SQL planning")], FALSE, None)
    ELSE PlanSqlStored(s, GenerateSqlPlan(s.metadata["intent"]))

\* a variant of _execute_query that stores the QueryResult of a failed execution too
ExecuteQueryStored_KeepFailed(s, result) ==
    IF result.error # None
    THEN Out([s EXCEPT !.error = Some("Query execution failed: " \o result.error[1]),
                       !.results = Some(result)],
             FALSE, Some(result))
    ELSE Out([s EXCEPT !.results = Some(result),
                       !.metadata = Merge(@, ("results" :> result.rows)
                                             @@ ("result_count" :> result.rowcount))],
             FALSE, Some(result))

\* _execute_query, from the return of db_execute_query on: result is its QueryResult
ExecuteQueryStored(s, result) ==
    IF result.error # None
    THEN Out([s EXCEPT !.error = Some("Query execution failed: " \o result.error[1])],
             FALSE, Some(result))
    ELSE Out([s EXCEPT !.results = Some(result),
                       !.metadata = Merge(@, ("results" :> result.rows)
                                             @@ ("result_count" :> result.rowcount))],
             FALSE, Some(result))

\* a variant of _execute_query without the test of the error slot
ExecuteQueryNode_NoGuard(s, eng) ==
    IF s.sql_plan = None
    THEN Out([s EXCEPT !.error = Some("No SQL plan to execute")], FALSE, None)
    ELSE ExecuteQueryStored(s, ExecuteQuery(s.sql_plan[1].query, s.sql_plan[1].params, eng))

\* _execute_query
ExecuteQueryNode(s, eng) ==
    IF Truthy(s.error) THEN Out(s, FALSE, None)
    ELSE IF s.sql_plan = None
    THEN Out([s EXCEPT !.error = Some("No SQL plan to execute")], FALSE, None)
    ELSE ExecuteQueryStored(s, ExecuteQuery(s.sql_plan[1].query, s.sql_plan[1].params, eng))

NoRows(s) == s.results = None \/ s.results[1].rows = <<>>

\* generate_chart_spec(results=state.results, intent=intent): the argument is the
\* QueryResult object, not its rows, so len(results) and results[0] raise TypeError
ChartSpecOfQueryResult(results, intent) ==
    IF ~intent.is_comparison /\ intent.intent_type = Some("spending_by_category")
    THEN Raise("object of type 'QueryResult' has no len()")
    ELSE Raise("'QueryResult' object is not subscriptable")

\* _generate_chart: a failure of chart generation is logged and dropped
GenerateChartNode(s) ==
    IF Truthy(s.error) THEN Out(s, FALSE, None)
    ELSE IF NoRows(s) THEN Out(s, FALSE, None)
    ELSE LET r == ChartSpecOfQueryResult(s.results[1], s.metadata["intent"])
         IN  IF r.raised THEN Out(s, FALSE, None)
             ELSE IF r.value # None
             THEN Out([s EXCEPT !.chart_spec = r.value,
                                !.metadata = Merge(@, "chart_generated" :> TRUE)], FALSE, None)
             ELSE Out(s, FALSE, None)

\* generate_answer(results=state.results, ...): the argument is the QueryResult
\* object, which is truthy and has no len()
AnswerOfQueryResult(results, intent, chart_spec) ==
    Raise("object of type 'QueryResult' has no len()")

\* _synthesize_answer, the try block up to Answer(markdown=answer_text)
AnswerText(s) ==
    IF Truthy(s.error) THEN Return("Error: " \o s.error[1])
    ELSE IF NoRows(s) THEN Return("No results found matching your query.")
    ELSE AnswerOfQueryResult(s.results[1], s.metadata["intent"], s.chart_spec)

\* _synthesize_answer, the except block: e is str() of the exception
SynthesizeFailed(s, e) ==
    Out([s EXCEPT !.error = Some("Error generating answer: " \o e),
                  !.answer = Some(Answer("An error occurred: " \o e))], FALSE, None)

\* _synthesize_answer: state.answer.metadata.update(...) raises AttributeError (the
\* Answer of state.py has no metadata field), so every run ends in the except block
SynthesizeAnswerNode(s) ==
    SynthesizeFailed(s, IF AnswerText(s).raised THEN AnswerText(s).msg ELSE "'Answer' object has no attribute 'metadata'")

\* _should_generate_chart
ShouldGenerateChart(s) ==
    IF Truthy(s.error) \/ NoRows(s) THEN "synthesize"
    ELSE LET intent_type == IF Has(s.metadata, "intent") THEN s.metadata["intent"].intent_type
                            ELSE None
         IN  IF intent_type \in {Some("spending_over_time"), Some("comparison")}
             THEN "generate_chart"
             ELSE IF /\ intent_type = Some("spending_by_category")
                     /\ Len(s.results[1].rows) > 1
                     /\ Len(s.results[1].rows) <= ChartedCategories
             THEN "generate_chart"
             ELSE "synthesize"

\* a variant of the edges in which plan_sql leads straight to synthesize_answer
NextNode_SkipExecute(node, s) ==
    CASE node = "parse_intent" -> "resolve_categories"
      [] node = "resolve_categories" -> "plan_sql"
      [] node = "plan_sql" -> "synthesize_answer"
      [] node = "execute_query" -> "synthesize_answer"
      [] node = "generate_chart" -> "synthesize_answer"
      [] node = "synthesize_answer" -> "END"

\* _setup_edges: the node that follows node, s being the state node returned
NextNode(node, s) ==
    CASE node = "parse_intent" -> "resolve_categories"
      [] node = "resolve_categories" -> "plan_sql"
      [] node = "plan_sql" -> "execute_query"
      [] node = "execute_query" -> IF ShouldGenerateChart(s) = "generate_chart"
                                   THEN "generate_chart" ELSE "synthesize_answer"
      [] node = "generate_chart" -> "synthesize_answer"
      [] node = "synthesize_answer" -> "END"

\* run_query, after graph.ainvoke returned final_state
RunQueryReturn(final_state) ==
    IF Truthy(final_state.error) THEN Answer("Error: " \o final_state.error[1])
    ELSE IF final_state.answer # None THEN final_state.answer[1]
    ELSE Answer("No results found.")

-----------------------------------------------------------------------------
(* Direct calls on the tools with caller-supplied statements *)

RECURSIVE Texts(_)
Texts(n) ==
    IF n = 0 THEN {""}
    ELSE Texts(n - 1) \cup {t \o c : t \in Texts(n - 1),
                                    c \in {"Select ", "drop", "x", "-- drop", "\n", "/* drop", "*/"}}

AnswersFor(query) == IF IsSafeQuery(query) THEN EngineOutcomes ELSE {[ok |-> FALSE, columns |-> <<>>, n |-> 0]}

Log(reached, entry) == IF reached THEN Append(engine_calls, entry) ELSE engine_calls

\* a caller invokes SQLiteTool.execute(query)
CallSQLiteToolExecute ==
    \E q \in Texts(MaxChunks) : \E eng \in AnswersFor(q) :
        LET r == SQLiteToolExecute(q, None, eng)
        IN  /\ pc = "idle"
            /\ pc' = "called"
            /\ call' = [op |-> "SQLiteTool.execute", query |-> q, raised |-> r.raised,
                        result |-> r]
            /\ engine_calls' = Log(r.reached, EngineCall(q, "execute", TRUE))
            /\ UNCHANGED <<run_vars, shared_vars>>

\* a caller invokes DBExecutor.execute_query(sql)
CallExecuteQuery ==
    \E q \in Texts(MaxChunks) : \E eng \in AnswersFor(q) :
        LET r == SQLiteToolExecute(q, None, eng)
        IN  /\ pc = "idle"
            /\ pc' = "called"
            /\ call' = [op |-> "DBExecutor.execute_query", query |-> q, raised |-> FALSE,
                        result |-> ExecuteQuery(q, None, eng)]
            /\ engine_calls' = Log(r.reached, EngineCall(q, "execute", TRUE))
            /\ UNCHANGED <<run_vars, shared_vars>>

\* a caller invokes ResultFrame.from_sql(conn, query): cursor.execute(query, params)
\* with no check in front of it; sqlite3.Error becomes ValueError
CallFromSql ==
    \E q \in Texts(MaxChunks), eng \in EngineOutcomes :
        /\ pc = "idle"
        /\ pc' = "called"
        /\ call' = [op |-> "ResultFrame.from_sql", query |-> q, raised |-> ~eng.ok,
                    result |-> IF eng.ok
                               THEN [data |-> EngineRows(eng), columns |-> eng.columns,
                                     rowcount |-> eng.n, sql |-> q]
                               ELSE [msg |-> "SQL Error: " \o SqliteErrorText]]
        /\ engine_calls' = Append(engine_calls, EngineCall(q, "from_sql", TRUE))
        /\ UNCHANGED <<run_vars, shared_vars>>

\* a caller invokes SQLiteTool.list_tables()
CallListTables ==
    \E eng \in EngineOutcomes :
        /\ pc = "idle"
        /\ pc' = "called"
        /\ call' = [op |-> "SQLiteTool.list_tables", query |-> "", raised |-> ~eng.ok,
                    result |-> eng]
        /\ engine_calls' = Append(engine_calls, EngineCall("SELECT name FROM sqlite_master WHERE type='table' AND name NOT LIKE 'sqlite_%' ORDER BY name", "list_tables", FALSE))
        /\ UNCHANGED <<run_vars, shared_vars>>

\* a caller invokes SQLiteTool.pragma_table_info(table_name)
CallPragmaTableInfo ==
    \E t \in {"expenses", "expenses\n", "1abc", "x); DROP TABLE expenses; --", ""},
       eng \in EngineOutcomes :
        /\ pc = "idle"
        /\ pc' = "called"
        /\ call' = [op |-> "SQLiteTool.pragma_table_info", query |-> t,
                    raised |-> ~IsIdentifier(t) \/ ~eng.ok,
                    result |-> IF IsIdentifier(t) THEN eng ELSE [msg |-> "Invalid table name: " \o t]]
        /\ engine_calls' = Log(IsIdentifier(t), EngineCall("PRAGMA table_info(" \o t \o ")", "pragma_table_info", FALSE))
        /\ UNCHANGED <<run_vars, shared_vars>>

\* the threads that work on a shared SQLiteTool or CategoryResolver
MaxThreads == 3

\* CategoryResolver.__init__ without a synonyms file
NewResolver == [synonyms |-> <<>>, categories |-> <<>>, category_embeddings |-> None]

\* the shared objects as constructed, with no thread at work on them.
\* SQLiteTool.__init__: the pool is empty; connected counts the sqlite3.connect
\* calls, the n-th of which yields the connection object n
NoThreads ==
    /\ tool = [connection_pool |-> EmptyDict, connected |-> 0]
    /\ workers = [t \in 1..MaxThreads |-> [pc |-> "idle", conn |-> None, raised |-> FALSE]]
    /\ resolver = NewResolver
    /\ writer = [pc |-> "idle"]

\* nothing has been called yet and no pipeline invocation is under way
InitIdle ==
    /\ pc = "idle"
    /\ call = [op |-> "none"]
    /\ engine_calls = <<>>
    /\ state = GraphState("", FALSE)
    /\ returned = None
    /\ planner_calls = 0
    /\ visited = <<>>
    /\ error_log = <<>>
    /\ NoThreads

SpecExec ==
    InitIdle /\ [][\/ CallSQLiteToolExecute
                   \/ CallExecuteQuery
                   \/ CallFromSql
                   \/ CallListTables
                   \/ CallPragmaTableInfo]_vars

-----------------------------------------------------------------------------
(* The planner applied to intents drawn from bounded sets *)

\* the longest category list of an intent
MaxCategories == 2

Injection == "\"; DROP TABLE expenses; --"

TimeRanges == {<<s, e>> : s \in {None, Some(Ordinal(2025, 9, 1))}, e \in {None, Some(Ordinal(2025, 9, 30))}}

ComparisonPeriods ==
    {None, <<None, None>>, <<Some(Ordinal(2025, 8, 3)), None>>,
     <<Some(Ordinal(2025, 8, 3)), Some(Ordinal(2025, 9, 1))>>}

FilterSets ==
    {c @@ lo @@ hi :
        c \in {EmptyDict} \cup {"category" :> l :
                                  l \in UNION {[1..k -> {"Food", Injection}] : k \in 0..MaxCategories}},
        lo \in {EmptyDict, "min_amount" :> "25"},
        hi \in {EmptyDict, "max_amount" :> "40"}}

BaseIntent(type, tr, filters) ==
    [intent_type |-> Some(type), time_range |-> tr, time_granularity |-> None,
     dimensions |-> <<>>, metrics |-> <<"amount">>, filters |-> filters,
     limit |-> None, is_comparison |-> FALSE, comparison_period |-> None]

\* d without key k
Without(d, k) == [x \in DOMAIN d \ {k} |-> d[x]]

PlanIntents ==
    {[BaseIntent("spending_over_time", tr, f) EXCEPT !["time_granularity"] = g] :
        tr \in TimeRanges, f \in FilterSets, g \in {None, Some("week")}}
    \cup {BaseIntent(t, tr, f) : t \in {"comparison", "breakdown"}, tr \in TimeRanges, f \in FilterSets}
    \cup {[BaseIntent("spending_by_category", tr, f) EXCEPT !["limit"] = l] :
        tr \in TimeRanges, f \in FilterSets, l \in {None, Some(3)}}
    \cup {Without(BaseIntent("spending_by_category", tr, f), "limit") :
        tr \in TimeRanges, f \in FilterSets}
    \cup {[BaseIntent("top_items", tr, f) EXCEPT !["limit"] = l, !["dimensions"] = d] :
        tr \in TimeRanges, f \in FilterSets, l \in {None, Some(3)},
        d \in {<<>>, <<"merchant">>, <<"merchant; DROP TABLE expenses">>}}
    \cup {Without(Without(BaseIntent("top_items", tr, f), "limit"), "dimensions") :
        tr \in TimeRanges, f \in FilterSets}
    \cup {[BaseIntent("comparison", tr, f) EXCEPT !["is_comparison"] = TRUE,
                                                  !["comparison_period"] = cp] :
        tr \in TimeRanges, f \in FilterSets, cp \in ComparisonPeriods}
    \cup {Without([BaseIntent("comparison", tr, f) EXCEPT !["is_comparison"] = TRUE],
                  "comparison_period") :
        tr \in TimeRanges, f \in FilterSets}

\* a caller compiles an intent and then compiles the same dict once more:
\* generate_sql_plan(intent); generate_sql_plan(intent)
CallGenerateSqlPlan ==
    \E it \in PlanIntents :
        /\ pc = "idle"
        /\ pc' = "called"
        /\ call' = [op |-> "generate_sql_plan", intent |-> it, result |-> GenerateSqlPlan(it),
                    intent_after |-> IntentAfterPlanSql(it),
                    again |-> GenerateSqlPlan(IntentAfterPlanSql(it))]
        /\ UNCHANGED <<engine_calls, run_vars, shared_vars>>

SpecPlan == InitIdle /\ [][CallGenerateSqlPlan]_vars

-----------------------------------------------------------------------------
(* run_query: one invocation of the pipeline *)

\* the texts a caller may pass to run_query
UserQueries ==
    {"", "top 3 merchants", "Compare top 5 stores"}
    \cup {h \o b \o t \o g :
              h \in {"", "Compare ", "Top 3 ", "Highest "},
              b \in {"spending", "spending by category", "expenses by merchant"},
              t \in {"", " last month", " this month", " yesterday", " past week"},
              g \in {"", " weekly"}}

\* the days on which the invocation may run (datetime.now())
Todays == {Ordinal(2025, 3, 31), Ordinal(2024, 3, 1), Ordinal(2025, 9, 30)}

\* the record of a node's run in the history variables
Ran(node, out) ==
    /\ state' = out.state
    /\ pc' = NextNode(node, out.state)
    /\ visited' = Append(visited, node)
    /\ error_log' = IF out.state.error # state.error
                    THEN Append(error_log, [stage |-> node, error |-> out.state.error[1]])
                    ELSE error_log
    /\ planner_calls' = planner_calls + (IF out.compiled THEN 1 ELSE 0)
    /\ UNCHANGED shared_vars

RunParseIntent ==
    /\ pc = "parse_intent"
    /\ \E today \in Todays : \E out \in {ParseIntentNode(state, today)} : Ran("parse_intent", out)
    /\ UNCHANGED <<call, engine_calls, returned>>

RunResolveCategories ==
    /\ pc = "resolve_categories"
    /\ \E out \in {ResolveCategoriesNode(state)} : Ran("resolve_categories", out)
    /\ UNCHANGED <<call, engine_calls, returned>>

RunPlanSql ==
    /\ pc = "plan_sql"
    /\ \E out \in {PlanSqlNode(state)} : Ran("plan_sql", out)
    /\ UNCHANGED <<call, engine_calls, returned>>

RunExecuteQuery ==
    /\ pc = "execute_query"
    /\ \E eng \in (IF state.sql_plan = None THEN {[ok |-> FALSE, columns |-> <<>>, n |-> 0]}
                   ELSE AnswersFor(state.sql_plan[1].query)) :
          \E out \in {ExecuteQueryNode(state, eng)} :
              /\ Ran("execute_query", out)
              /\ IF out.db = None
                 THEN UNCHANGED <<call, engine_calls>>
                 ELSE /\ call' = [op |-> "db_execute_query", query |-> out.db[1].sql,
                                  raised |-> FALSE, result |-> out.db[1], engine |-> eng]
                      /\ engine_calls' = Log(IsSafeQuery(out.db[1].sql),
                                              EngineCall(out.db[1].sql, "execute", FALSE))
    /\ UNCHANGED returned

RunGenerateChart ==
    /\ pc = "generate_chart"
    /\ \E out \in {GenerateChartNode(state)} : Ran("generate_chart", out)
    /\ UNCHANGED <<call, engine_calls, returned>>

RunSynthesizeAnswer ==
    /\ pc = "synthesize_answer"
    /\ \E out \in {SynthesizeAnswerNode(state)} : Ran("synthesize_answer", out)
    /\ UNCHANGED <<call, engine_calls, returned>>

\* graph.ainvoke is over and run_query returns
ReturnAnswer ==
    /\ pc = "END"
    /\ pc' = "returned"
    /\ returned' = Some(RunQueryReturn(state))
    /\ UNCHANGED <<state, visited, error_log, planner_calls, call, engine_calls, shared_vars>>

Init ==
    /\ pc = "parse_intent"
    /\ \E q \in UserQueries, coerced \in BOOLEAN : state = GraphState(q, coerced)
    /\ visited = <<>>
    /\ error_log = <<>>
    /\ planner_calls = 0
    /\ returned = None
    /\ call = [op |-> "none"]
    /\ engine_calls = <<>>
    /\ NoThreads

Next ==
    \/ RunParseIntent
    \/ RunResolveCategories
    \/ RunPlanSql
    \/ RunExecuteQuery
    \/ RunGenerateChart
    \/ RunSynthesizeAnswer
    \/ ReturnAnswer

Spec == Init /\ [][Next]_vars

\* the invocation moves on to another position
Advance ==
    /\ pc # "returned"
    /\ \E n \in {"parse_intent", "resolve_categories", "plan_sql", "execute_query",
                 "generate_chart", "synthesize_answer", "END", "returned"} \ {pc} : pc' = n

\* the graph runtime runs the node that is due and run_query returns when the graph
\* is over: an invocation that has not returned does not stay where it is for ever.
\* (Every step of Next changes pc, and Next is enabled until run_query has returned.)
FairSpec == Spec /\ WF_pc(Advance)

-----------------------------------------------------------------------------
(* Threads that call SQLiteTool.execute on one SQLiteTool *)

\* thread_id = id(1): the identity of the int object 1, the same in every thread
ThreadKey(thread) == "id(1)"

\* a thread enters execute: the safety test, then _get_connection up to its test
\* `thread_id not in self._connection_pool`
ExecuteEnter(thread) ==
    /\ workers[thread].pc = "idle"
    /\ \E q \in {"SELECT 1", "DROP TABLE expenses"} :
          workers' = [workers EXCEPT ![thread] =
              IF ~IsSafeQuery(q) THEN [pc |-> "idle", conn |-> None, raised |-> TRUE]
              ELSE [pc |-> IF Has(tool.connection_pool, ThreadKey(thread))
                           THEN "return" ELSE "connect",
                    conn |-> None, raised |-> FALSE]]
    /\ UNCHANGED <<tool, pc, call, engine_calls, run_vars, resolver, writer>>

\* _get_connection: sqlite3.connect(...) and the store into the pool
GetConnectionConnect(thread) ==
    /\ workers[thread].pc = "connect"
    /\ tool' = [connection_pool |->
                    Merge(tool.connection_pool, ThreadKey(thread) :> (tool.connected + 1)),
                connected |-> tool.connected + 1]
    /\ workers' = [workers EXCEPT ![thread].pc = "return"]
    /\ UNCHANGED <<pc, call, engine_calls, run_vars, resolver, writer>>

\* _get_connection: return self._connection_pool[thread_id]; the with block of
\* execute is entered with this connection
GetConnectionReturn(thread) ==
    /\ workers[thread].pc = "return"
    /\ workers' = [workers EXCEPT ![thread].pc = "using",
                                  ![thread].conn = Some(tool.connection_pool[ThreadKey(thread)])]
    /\ UNCHANGED <<tool, pc, call, engine_calls, run_vars, resolver, writer>>

\* the cursor work is over and execute leaves its with block
ExecuteLeave(thread) ==
    /\ workers[thread].pc = "using"
    /\ workers' = [workers EXCEPT ![thread].pc = "idle", ![thread].conn = None]
    /\ UNCHANGED <<tool, pc, call, engine_calls, run_vars, resolver, writer>>

SpecPool ==
    InitIdle /\ [][\/ \E thread \in 1..MaxThreads : ExecuteEnter(thread)
                   \/ \E thread \in 1..MaxThreads : GetConnectionConnect(thread)
                   \/ \E thread \in 1..MaxThreads : GetConnectionReturn(thread)
                   \/ \E thread \in 1..MaxThreads : ExecuteLeave(thread)]_vars

\* C13: two threads that are inside execute at the same time hold different
\* connection objects.
C13_OneConnectionPerThread ==
    \A t1, t2 \in 1..MaxThreads :
        (t1 # t2 /\ workers[t1].pc = "using" /\ workers[t2].pc = "using") =>
            workers[t1].conn # workers[t2].conn

-----------------------------------------------------------------------------
(* CategoryResolver: add_synonym in one thread, resolve_category in others.
   synonyms is the dict in insertion order, a sequence of entries; row i of
   category_embeddings is written as the text whose encoding it is; scores are in
   hundredths (1.0 is 100). *)

\* self.threshold
Threshold == 60

\* load_synonyms on a resolver as constructed: file is the parsed JSON
LoadSynonyms(file) ==
    [synonyms |-> file,
     categories |-> [i \in 1..Len(file) |-> file[i].canonical],
     category_embeddings |-> IF Len(file) > 0
                             THEN Some([i \in 1..Len(file) |-> file[i].canonical])
                             ELSE None]

\* the positions of the entries of self.synonyms that user_input matches exactly
ExactMatches(r, user_input) ==
    {i \in 1..Len(r.synonyms) :
        \/ Lower(user_input) = Lower(r.synonyms[i].canonical)
        \/ \E k \in 1..Len(r.synonyms[i].synonyms) :
              Lower(r.synonyms[i].synonyms[k]) = Lower(user_input)}

\* np.argmax(similarities): the first position of the greatest similarity, where
\* similarities[i] is what the model gives for user_input and row i
ArgMax(rows, sims) ==
    Min({i \in 1..Len(rows) : \A k \in 1..Len(rows) : sims[rows[k]] <= sims[rows[i]]})

\* resolve_category from the semantic part on
BestMatch(r, rows, sims) ==
    IF sims[rows[ArgMax(rows, sims)]] >= Threshold
    THEN <<Some(r.categories[ArgMax(rows, sims)]), sims[rows[ArgMax(rows, sims)]]>>
    ELSE <<None, 0>>

\* CategoryResolver.resolve_category; sims: the cosine similarity of user_input
\* and each category text under the sentence model
ResolveCategory(r, user_input, sims) ==
    IF user_input = "" \/ Len(r.categories) = 0 THEN <<None, 0>>
    ELSE IF ExactMatches(r, user_input) # {}
    THEN <<Some(r.synonyms[Min(ExactMatches(r, user_input))].canonical), 100>>
    ELSE IF r.category_embeddings # None
    THEN BestMatch(r, r.category_embeddings[1], sims)
    ELSE <<None, 0>>

\* what the sentence model may say of user_input and the category texts; it is
\* only consulted when resolve_category reaches its semantic part
SimilaritiesFor(r, user_input) ==
    IF user_input = "" \/ Len(r.categories) = 0 \/ ExactMatches(r, user_input) # {}
       \/ r.category_embeddings = None
    THEN {[c \in {"Food", "Rent"} |-> 0]}
    ELSE [{"Food", "Rent"} -> {40, 60, 80}]

\* the position of canonical in self.synonyms
EntryOf(r, canonical) ==
    CHOOSE i \in 1..Len(r.synonyms) : r.synonyms[i].canonical = canonical

\* add_synonym(canonical, synonym) is entered: the test of line 62 and, for a new
\* canonical, self.synonyms[canonical] = []
AddSynonymEnter ==
    /\ writer.pc = "idle"
    /\ \E canonical \in {"Food", "Rent"}, synonym \in {"grub"} :
          IF \E i \in 1..Len(resolver.synonyms) : resolver.synonyms[i].canonical = canonical
          THEN /\ writer' = [pc |-> "synonym", canonical |-> canonical, synonym |-> synonym]
               /\ UNCHANGED resolver
          ELSE /\ writer' = [pc |-> "append", canonical |-> canonical, synonym |-> synonym]
               /\ resolver' = [resolver EXCEPT !.synonyms =
                                 Append(@, [canonical |-> canonical, synonyms |-> <<>>])]
    /\ call' = [op |-> "add_synonym"]
    /\ UNCHANGED <<pc, engine_calls, run_vars, tool, workers>>

\* self.categories.append(canonical)
AddSynonymAppend ==
    /\ writer.pc = "append"
    /\ resolver' = [resolver EXCEPT !.categories = Append(@, writer.canonical)]
    /\ writer' = [writer EXCEPT !.pc = "stack"]
    /\ call' = [op |-> "add_synonym"]
    /\ UNCHANGED <<pc, engine_calls, run_vars, tool, workers>>

\* if the matrix exists: encode the new category and np.vstack the row under it
AddSynonymStack ==
    /\ writer.pc = "stack"
    /\ resolver' = [resolver EXCEPT !.category_embeddings =
                      IF @ # None THEN Some(Append(@[1], writer.canonical)) ELSE @]
    /\ writer' = [writer EXCEPT !.pc = "synonym"]
    /\ call' = [op |-> "add_synonym"]
    /\ UNCHANGED <<pc, engine_calls, run_vars, tool, workers>>

\* if synonym not in self.synonyms[canonical]: append it; add_synonym returns
AddSynonymLeave ==
    /\ writer.pc = "synonym"
    /\ resolver' = [resolver EXCEPT !.synonyms[EntryOf(resolver, writer.canonical)].synonyms =
                      IF writer.synonym \in Range(@) THEN @ ELSE Append(@, writer.synonym)]
    /\ writer' = [pc |-> "idle"]
    /\ call' = [op |-> "add_synonym"]
    /\ UNCHANGED <<pc, engine_calls, run_vars, tool, workers>>

\* another thread calls resolve_category(user_input) on the resolver as it is
CallResolveCategory ==
    /\ \E user_input \in {"", "FOOD", "Grub", "rent", "snack"} :
       \E sims \in SimilaritiesFor(resolver, user_input) :
          call' = [op |-> "resolve_category", user_input |-> user_input, sims |-> sims,
                   resolver |-> resolver, appending |-> writer.pc \in {"append", "stack"},
                   result |-> ResolveCategory(resolver, user_input, sims)]
    /\ UNCHANGED <<pc, engine_calls, run_vars, tool, workers, resolver, writer>>

\* the resolver was constructed without a synonyms file or with one of two files
InitResolver ==
    /\ pc = "idle"
    /\ call = [op |-> "none"]
    /\ engine_calls = <<>>
    /\ state = GraphState("", FALSE)
    /\ returned = None
    /\ planner_calls = 0
    /\ visited = <<>>
    /\ error_log = <<>>
    /\ tool = [connection_pool |-> EmptyDict, connected |-> 0]
    /\ workers = [t \in 1..MaxThreads |-> [pc |-> "idle", conn |-> None, raised |-> FALSE]]
    /\ writer = [pc |-> "idle"]
    /\ resolver \in {NewResolver,
                     LoadSynonyms(<<[canonical |-> "Food", synonyms |-> <<"grub">>]>>),
                     LoadSynonyms(<<[canonical |-> "Rent", synonyms |-> <<>>],
                                    [canonical |-> "Food", synonyms |-> <<"Rent">>]>>)}

SpecResolver ==
    InitResolver /\ [][\/ AddSynonymEnter
                       \/ AddSynonymAppend
                       \/ AddSynonymStack
                       \/ AddSynonymLeave
                       \/ CallResolveCategory]_vars

\* C14: whenever a reader calls resolve_category, the synonym table, the list of
\* canonical categories and the embedding matrix it finds describe the same
\* categories: the table's keys are the listed categories and, if the matrix
\* exists, it has one row per listed category.
C14_ReaderSeesWholeAppend ==
    call.op = "resolve_category" =>
        /\ {call.resolver.synonyms[i].canonical : i \in 1..Len(call.resolver.synonyms)}
             = Range(call.resolver.categories)
        /\ call.resolver.category_embeddings # None =>
             Len(call.resolver.category_embeddings[1]) = Len(call.resolver.categories)

\* the canonical categories that user_input names: by their own name or by one of
\* their registered synonyms, whatever the case of the letters
C15_Named(r, user_input) ==
    {r.synonyms[i].canonical : i \in
        {i \in 1..Len(r.synonyms) :
            Lower(user_input) \in
                {Lower(r.synonyms[i].canonical)}
                \cup {Lower(r.synonyms[i].synonyms[k]) : k \in 1..Len(r.synonyms[i].synonyms)}}}

\* the greatest similarity of the input to a canonical category, 0 without categories
C15_Best(r, sims) ==
    IF Len(r.categories) = 0 THEN 0
    ELSE CHOOSE s \in {sims[c] : c \in Range(r.categories)} :
            \A c \in Range(r.categories) : sims[c] <= s

\* what the claim promises for one call
C15_Promised(r, user_input, sims, result) ==
    /\ C15_Named(r, user_input) # {} =>
          result[2] = 100 /\ result[1] # None /\ result[1][1] \in C15_Named(r, user_input)
    /\ (/\ C15_Named(r, user_input) = {}
        /\ r.category_embeddings # None
        /\ C15_Best(r, sims) >= Threshold) =>
          /\ result[2] = C15_Best(r, sims)
          /\ result[1] # None
          /\ result[1][1] \in Range(r.categories)
          /\ sims[result[1][1]] = C15_Best(r, sims)
    /\ result = <<None, 0>> <=>
          /\ C15_Named(r, user_input) = {}
          /\ r.category_embeddings = None \/ C15_Best(r, sims) < Threshold

\* C15: resolve_category returns (canonical, 1.0) for an input that names a
\* canonical category or one of its synonyms in any case of letters, otherwise the
\* best-scoring category with its similarity if that reaches the threshold, and
\* (absent, 0.0) exactly when nothing is named and the best similarity is below the
\* threshold or there is no embedding matrix.
C15_ResolveAsPromised ==
    call.op = "resolve_category" =>
        C15_Promised(call.resolver, call.user_input, call.sims, call.result)

\* the same for the calls made while no add_synonym is between its first and its
\* last write
C15_ResolveAsPromisedAtRest ==
    (call.op = "resolve_category" /\ writer.pc = "idle") =>
        C15_Promised(call.resolver, call.user_input, call.sims, call.result)

-----------------------------------------------------------------------------
(* Direct calls of the functions the nodes are built from *)

\* AnswerSynthesizer.synthesize_answer, the dispatch on intent_type: the method it
\* calls. The _format_* methods it names are defined after the return statement of
\* generate_answer, as local functions of generate_answer that are never reached;
\* the class has _format_error_response and _format_empty_results only
FormatMethod(intent_type) ==
    IF intent_type \in {Some("spending_by_category"), Some("spending_over_time"),
                        Some("top_items"), Some("comparison")}
    THEN "_format_" \o intent_type[1]
    ELSE "_format_generic_response"

\* generate_answer(results, intent, chart_spec) for a list of rows; chart_spec is
\* None or a ChartSpec object, which has no get()
GenerateAnswer(results, intent, chart_spec) ==
    IF Len(results) = 0 THEN Return("No results found matching your query.")
    ELSE IF chart_spec # None THEN Raise("'ChartSpec' object has no attribute 'get'")
    ELSE Raise("'AnswerSynthesizer' object has no attribute '"
               \o FormatMethod(Get(intent, "intent_type", None)) \o "'")

\* a caller renders a result: generate_answer(results, intent, chart_spec)
CallGenerateAnswer ==
    \E type \in {"comparison", "spending_by_category", "spending_over_time", "top_items",
                 "breakdown"},
       results \in UNION {[1..n -> {[current_value |-> c, previous_value |-> p,
                                     difference |-> c - p,
                                     pct_change |-> IF p = 0 THEN None
                                                    ELSE Some(((c * 100) \div p) - 100)] :
                                        c \in {0, 100}, p \in {0, 50}}] : n \in 0..MaxRows},
       chart_spec \in {None, Some([chart_type |-> "bar"])} :
        /\ pc = "idle"
        /\ pc' = "called"
        /\ call' = [op |-> "generate_answer", results |-> results,
                    intent |-> BaseIntent(type, <<None, None>>, EmptyDict),
                    chart_spec |-> chart_spec,
                    result |-> GenerateAnswer(results, BaseIntent(type, <<None, None>>, EmptyDict),
                                              chart_spec)]
        /\ UNCHANGED <<engine_calls, run_vars, shared_vars>>

\* sanitize_sql_identifier: the reserved words
sql_keywords ==
    {"select", "insert", "update", "delete", "from", "where", "group", "by",
     "order", "having", "join", "inner", "outer", "left", "right", "as", "and",
     "or", "not", "in", "like", "between", "is", "null", "true", "false"}

\* sanitize_sql_identifier(identifier); identifier = None stands for an argument
\* that is not a str. re.match(r'^[a-zA-Z0-9_]+$', ...): $ also matches before one
\* final newline
SanitizeSqlIdentifier(identifier) ==
    IF identifier = None \/ identifier[1] = ""
    THEN Raise("Identifier must be a non-empty string")
    ELSE IF ~(IsWordChar(Char(identifier[1], 1)) /\ IndexIn(DigitChars, Char(identifier[1], 1)) = {})
    THEN Raise("Identifier must start with a letter or underscore")
    ELSE IF ~\A i \in 1..Len(identifier[1]) :
                \/ IsWordChar(Char(identifier[1], i))
                \/ i = Len(identifier[1]) /\ i > 1 /\ Char(identifier[1], i) = "\n"
    THEN Raise("Identifier can only contain alphanumeric characters and underscores")
    ELSE IF Lower(identifier[1]) \in sql_keywords
    THEN Raise("Identifier cannot be a reserved SQL keyword: " \o identifier[1])
    ELSE Return(identifier[1])

\* the identifiers a caller passes: up to n pieces put together
RECURSIVE Identifiers(_)
Identifiers(n) ==
    IF n = 0 THEN {""}
    ELSE Identifiers(n - 1) \cup {t \o c : t \in Identifiers(n - 1),
                                          c \in {"col", "_", "1", "By", "or", "-", "\n", " "}}

\* a caller validates an identifier: sanitize_sql_identifier(identifier)
CallSanitizeSqlIdentifier ==
    \E identifier \in {None} \cup {Some(t) : t \in Identifiers(MaxChunks)} :
        /\ pc = "idle"
        /\ pc' = "called"
        /\ call' = [op |-> "sanitize_sql_identifier", identifier |-> identifier,
                    result |-> SanitizeSqlIdentifier(identifier)]
        /\ UNCHANGED <<engine_calls, run_vars, shared_vars>>

\* the value the storage engine computes for a time expression of
\* _get_time_expression on a row whose date is day. The modifier 'weekday 0' moves
\* a date forward to the next Sunday (not at all if it is a Sunday); date.toordinal()
\* of a Sunday is a multiple of 7
EvalTimeExpression(expr, day) ==
    CASE expr = "date" -> DateStr(day)
      [] expr = "date(date, 'weekday 0', '-6 days')" ->
            DateStr(day + ((7 - (day % 7)) % 7) - 6)
      [] expr = "strftime('%Y-%m', date)" -> SubSeq(DateStr(day), 1, 7)
      [] expr = "strftime('%Y', date) || '-Q' || ((strftime('%m', date) + 2) / 3)" ->
            SubSeq(DateStr(day), 1, 4) \o "-Q" \o IntToStr((Civil(day).month + 2) \div 3)
      [] expr = "strftime('%Y', date)" -> SubSeq(DateStr(day), 1, 4)

\* a row is put into its time bucket: the engine evaluates the expression of
\* _get_time_expression(granularity) on the date of the row
CallTimeBucket ==
    \E granularity \in {None, Some("day"), Some("week"), Some("month"), Some("quarter"),
                        Some("year")},
       day \in Ordinal(2025, 8, 30)..Ordinal(2025, 9, 14) \cup
                Ordinal(2024, 12, 28)..Ordinal(2025, 1, 5) :
        /\ pc = "idle"
        /\ pc' = "called"
        /\ call' = [op |-> "time_bucket", granularity |-> granularity, date |-> day,
                    bucket |-> EvalTimeExpression(GetTimeExpression(granularity), day)]
        /\ UNCHANGED <<engine_calls, run_vars, shared_vars>>

\* the first of columns that is in ok, None when there is none
FirstColumn(columns, ok) ==
    IF \A i \in 1..Len(columns) : columns[i] \notin ok THEN None
    ELSE Some(columns[Min({i \in 1..Len(columns) : columns[i] \in ok})])

\* generate_chart_spec, the x axis. results is a list of rows, each a mapping from
\* the columns (in the order of the first row's keys) to cells; a cell is written as
\* the name of its Python type: "int", "str" or "NoneType"
ChartXAxis(columns, results) ==
    IF FirstColumn(<<"date", "time_period", "month", "year", "day">>, Range(columns)) # None
    THEN FirstColumn(<<"date", "time_period", "month", "year", "day">>, Range(columns))
    ELSE FirstColumn(columns, {c \in Range(columns) :
                                 ~\E i \in 1..Len(results) : results[i][c] = "int"})

\* generate_chart_spec, the y axis, x_axis being None or the column chosen for x
ChartYAxis(columns, results, x_axis) ==
    IF FirstColumn(columns, {c \in Range(columns) \ Range(x_axis) :
                               \A i \in 1..Len(results) :
                                  results[i][c] # "NoneType" => results[i][c] = "int"}) # None
    THEN FirstColumn(columns, {c \in Range(columns) \ Range(x_axis) :
                                 \A i \in 1..Len(results) :
                                    results[i][c] # "NoneType" => results[i][c] = "int"})
    ELSE FirstColumn(columns, {c \in Range(columns) \ Range(x_axis) :
                                 \E i \in 1..Len(results) : results[i][c] = "int"})

\* generate_chart_spec(results, intent) for a list of rows: None or the chart type
\* and the axes of the ChartSpec (its titles are derived from the axes)
GenerateChartSpec(columns, results, intent) ==
    IF Len(results) = 0 THEN None
    ELSE IF None \in {ChartXAxis(columns, results),
                      ChartYAxis(columns, results, ChartXAxis(columns, results))}
    THEN None
    ELSE Some([chart_type |->
                  IF Get(intent, "is_comparison", FALSE) THEN "bar"
                  ELSE IF Get(intent, "intent_type", None) = Some("spending_by_category")
                  THEN (IF Len(results) <= 10 THEN "pie" ELSE "bar")
                  ELSE IF Truthy(Get(intent, "time_granularity", None)) THEN "line"
                  ELSE "bar",
               x_axis |-> ChartXAxis(columns, results)[1],
               y_axis |-> ChartYAxis(columns, results, ChartXAxis(columns, results))[1]])

\* a caller asks for the chart of a result: generate_chart_spec(results, intent)
CallGenerateChartSpec ==
    \E columns \in {<<"category", "note", "total_amount">>, <<"time_period", "total_amount">>,
                     <<"total_amount", "count">>, <<"note", "date">>},
       type \in {"spending_by_category", "top_items"} :
    \E results \in UNION {[1..n -> [Range(columns) -> {"int", "str", "NoneType"}]] :
                             n \in 0..MaxRows} :
        /\ pc = "idle"
        /\ pc' = "called"
        /\ call' = [op |-> "generate_chart_spec", columns |-> columns, results |-> results,
                    intent |-> BaseIntent(type, <<None, None>>, EmptyDict),
                    result |-> GenerateChartSpec(columns, results,
                                                 BaseIntent(type, <<None, None>>, EmptyDict))]
        /\ UNCHANGED <<engine_calls, run_vars, shared_vars>>

SpecNodes ==
    InitIdle /\ [][\/ CallGenerateAnswer
                   \/ CallSanitizeSqlIdentifier
                   \/ CallTimeBucket
                   \/ CallGenerateChartSpec]_vars

-----------------------------------------------------------------------------
(* Properties of the direct calls *)

C1_Blocked ==
    {"drop", "alter", "delete", "insert", "update", "replace",
     "create", "attach", "detach", "vacuum", "pragma", "reindex"}

C1_MustReject(q) ==
    LET t == Lower(StripComments(q))
    IN  \/ \E w \in C1_Blocked : HasWholeWord(t, w)
        \/ ~StartsWith(Strip(t), "select")

\* C1: a query passed to SQLiteTool.execute or DBExecutor.execute_query whose
\* comment-stripped, lower-cased text holds a blocked keyword as a whole word, or
\* does not start with 'select' once trimmed, is rejected as unsafe and
\* cursor.execute is never called for it.
C1_RejectedBeforeEngine ==
    (call.op \in {"SQLiteTool.execute", "DBExecutor.execute_query"} /\ C1_MustReject(call.query))
    => /\ engine_calls = <<>>
       /\ call.op = "SQLiteTool.execute" =>
            call.raised /\ call.result.msg = UnsafeMessage
       /\ call.op = "DBExecutor.execute_query" =>
            call.result.error = Some(UnsafeMessage)

\* a statement that starts with select and carries a blocked word was handed to
\* the executor and turned away
C1_Witness ==
    /\ call.op = "DBExecutor.execute_query"
    /\ call.query = "Select drop"
    /\ call.result.error = Some(UnsafeMessage)

\* C2: every caller-supplied statement that reaches cursor.execute, on whatever
\* call path, has passed the safety check first.
C2_NoUncheckedPath ==
    \A i \in 1..Len(engine_calls) :
        engine_calls[i].supplied => IsSafeQuery(engine_calls[i].sql)

-----------------------------------------------------------------------------
(* Properties of the planner *)

Compiled == call.op = "generate_sql_plan" /\ ~call.result.raised

OtherCategory(c) == IF c = Injection THEN "Food" ELSE Injection

ShiftRange(r, days) ==
    IF r = None THEN None
    ELSE <<IF r[1] = None THEN None ELSE Some(r[1][1] + days),
           IF r[2] = None THEN None ELSE Some(r[2][1] + days)>>

\* the same intent with other values in the filters that are present
WithOtherCategories(it) ==
    IF Has(it.filters, "category")
    THEN [it EXCEPT !["filters"]["category"] =
            [i \in DOMAIN it.filters["category"] |-> OtherCategory(it.filters["category"][i])]]
    ELSE it

WithOtherAmounts(it) ==
    [it EXCEPT !["filters"] =
        [k \in DOMAIN it.filters |->
            IF k \in {"min_amount", "max_amount"} THEN it.filters[k] \o "7" ELSE it.filters[k]]]

WithOtherDates(it) ==
    LET moved == [it EXCEPT !["time_range"] = ShiftRange(it.time_range, 45)]
    IN  IF Has(it, "comparison_period")
        THEN [moved EXCEPT !["comparison_period"] = ShiftRange(it.comparison_period, 45)]
        ELSE moved

\* every value of a present filter is bound in params under its placeholder's name
ValuesBound(it, params) ==
    /\ it.time_range[1] # None =>
         Has(params, "time_start") /\ params["time_start"] = DateStr(it.time_range[1][1])
    /\ it.time_range[2] # None =>
         Has(params, "time_end") /\ params["time_end"] = DateStr(it.time_range[2][1])
    /\ Has(it.filters, "category") =>
         \A i \in DOMAIN it.filters["category"] :
            Has(params, CategoryName(i)) /\ params[CategoryName(i)] = it.filters["category"][i]
    /\ \A k \in {"min_amount", "max_amount"} :
         Has(it.filters, k) => Has(params, k) /\ params[k] = ParseInt(it.filters[k])

\* the texts of the category and date values of an intent
ValueTexts(it) ==
    (IF Has(it.filters, "category") THEN Range(it.filters["category"]) ELSE {})
    \cup {DateStr(b[1]) : b \in {b \in Range(it.time_range) : b # None}}

\* C3: the query text of a compiled plan does not depend on the filter values:
\* the same intent with other category strings, other amounts or other dates
\* compiles to the same text; every value is bound in params and none occurs in
\* the text; and the injection
\* string, given as a category, is not in the text and leaves the safety verdict
\* of the plan as it is with a harmless category.
C3_ValuesOnlyInParams ==
    Compiled =>
        LET it == call.intent
            plan == call.result.value
        IN  /\ \A v \in {WithOtherCategories(it), WithOtherAmounts(it), WithOtherDates(it)} :
                 /\ ~GenerateSqlPlan(v).raised
                 /\ GenerateSqlPlan(v).value.query = plan.query
            /\ ValuesBound(it, plan.params)
            /\ \A v \in ValueTexts(it) : ~Contains(plan.query, v)
            /\ (Has(it.filters, "category") /\ Injection \in Range(it.filters["category"])) =>
                 /\ ~Contains(plan.query, Injection)
                 /\ IsSafeQuery(plan.query)
                      = IsSafeQuery(GenerateSqlPlan(WithOtherCategories(it)).value.query)

\* a comparison plan was compiled from an intent that filters on the injection string
C3_Witness ==
    /\ Compiled
    /\ call.intent.is_comparison
    /\ Has(call.intent.filters, "category")
    /\ call.intent.filters["category"] = <<Injection, "Food">>
    /\ Has(call.intent.filters, "min_amount")
    /\ call.result.value.params["category_0"] = Injection

\* the last position of the run of word characters that starts at i
WordEnd(s, i) ==
    CHOOSE j \in i..Len(s) :
        /\ \A k \in i..j : IsWordChar(Char(s, k))
        /\ (j = Len(s) \/ ~IsWordChar(Char(s, j + 1)))

\* the names of the :name placeholders of a statement
Placeholders(s) ==
    {SubSeq(s, i + 1, WordEnd(s, i + 1)) :
        i \in {i \in 1..(Len(s) - 1) : Char(s, i) = ":" /\ IsWordChar(Char(s, i + 1))}}

\* C8: every named placeholder in the text of a compiled plan is a key of the
\* plan's params, for every intent type and combination of filters.
C8_PlaceholdersBound ==
    Compiled => Placeholders(call.result.value.query) \subseteq DOMAIN call.result.value.params

\* a comparison plan with time, category and amount placeholders was compiled
C8_Witness ==
    /\ Compiled
    /\ call.intent.is_comparison
    /\ call.intent.intent_type = Some("comparison")
    /\ {"time_start", "time_end", "category_0", "category_1", "min_amount", "max_amount"}
         \subseteq Placeholders(call.result.value.query)

C9_AbsentBound(it) ==
    \/ None \in {it.time_range[1], it.time_range[2]}
    \/ ~Has(it, "comparison_period")
    \/ it.comparison_period = None
    \/ None \in {it.comparison_period[1], it.comparison_period[2]}

\* C9: compiling a comparison intent in which a bound of time_range or of
\* comparison_period is absent, or comparison_period is absent as a whole, fails
\* with the planning error 'Invalid time range for comparison'.
C9_AbsentBoundIsPlanningError ==
    ( /\ call.op = "generate_sql_plan"
      /\ call.intent.intent_type = Some("comparison")
      /\ call.intent.is_comparison
      /\ C9_AbsentBound(call.intent) )
    => call.result.raised /\ call.result.msg = "Invalid time range for comparison"

-----------------------------------------------------------------------------
(* Properties of a pipeline invocation *)

StagesWithChart ==
    <<"parse_intent", "resolve_categories", "plan_sql", "execute_query",
      "generate_chart", "synthesize_answer">>

StagesWithoutChart ==
    <<"parse_intent", "resolve_categories", "plan_sql", "execute_query", "synthesize_answer">>

IsPrefix(a, b) == Len(a) <= Len(b) /\ a = SubSeq(b, 1, Len(a))

\* the nodes that ran so far are the first nodes of the fixed order, and once the
\* graph is over all of them ran, generate_chart at most once
C4_InOrder ==
    /\ IsPrefix(visited, StagesWithChart) \/ IsPrefix(visited, StagesWithoutChart)
    /\ pc \in {"END", "returned"} => visited \in {StagesWithChart, StagesWithoutChart}
    /\ pc \notin {"END", "returned"} =>
          \E order \in {StagesWithChart, StagesWithoutChart} :
              /\ IsPrefix(visited, order)
              /\ Len(visited) < Len(order)
              /\ pc = order[Len(visited) + 1]

\* C4: every invocation runs parse_intent, resolve_categories, plan_sql,
\* execute_query, then generate_chart at most once, then synthesize_answer, in this
\* order, none of them twice and none but generate_chart left out, whether or not
\* the error slot is set, and it eventually reaches END and returns.
C4_StagesInOrderToEnd == []C4_InOrder /\ <>(pc = "returned")

\* an invocation that ran all six nodes has returned
C4_Witness ==
    /\ pc = "returned"
    /\ visited = StagesWithChart
    /\ returned # None

\* an invocation in which the error slot was set before plan_sql has returned
C4_WitnessError ==
    /\ pc = "returned"
    /\ visited = StagesWithoutChart
    /\ error_log # <<>>
    /\ error_log[1].stage = "parse_intent"

BeforeSynthesis == {"resolve_categories", "plan_sql", "execute_query", "generate_chart"}

\* C5: once the error slot is set, a node before synthesize_answer leaves sql_plan,
\* results, chart_spec and the error as they are and calls neither the compiler nor
\* the engine; and no node makes the error slot absent again.
C5_ErrorFreezesStages ==
    [][ /\ (Truthy(state.error) /\ pc \in BeforeSynthesis) =>
              /\ state'.sql_plan = state.sql_plan
              /\ state'.results = state.results
              /\ state'.chart_spec = state.chart_spec
              /\ state'.error = state.error
              /\ planner_calls' = planner_calls
              /\ engine_calls' = engine_calls
        /\ state.error # None => state'.error # None ]_vars

\* parse_intent set the error slot, and resolve_categories, plan_sql and
\* execute_query have run after it
C5_Witness ==
    /\ pc = "synthesize_answer"
    /\ visited = <<"parse_intent", "resolve_categories", "plan_sql", "execute_query">>
    /\ error_log = <<[stage |-> "parse_intent", error |-> "No query provided"]>>
    /\ state.error = Some("No query provided")
    /\ planner_calls = 0
    /\ engine_calls = <<>>

\* plan_sql set the error slot and execute_query has run after it
C5_WitnessPlan ==
    /\ pc = "synthesize_answer"
    /\ Len(error_log) = 1
    /\ error_log[1].stage = "plan_sql"
    /\ Len(visited) = 4
    /\ planner_calls = 1
    /\ engine_calls = <<>>

\* C6: if a node before synthesize_answer set the error slot, the invocation ends
\* with the answer 'Error: <message>' for the message that node wrote, and
\* run_query returns this answer.
C6_ErrorRendered ==
    (pc = "returned" /\ error_log # <<>> /\ error_log[1].stage # "synthesize_answer") =>
        /\ state.answer = Some(Answer("Error: " \o error_log[1].error))
        /\ returned = Some(Answer("Error: " \o error_log[1].error))

\* the QueryResult of the call the node execute_query made on the executor is a failure
ExecutionFailed ==
    /\ call.op = "db_execute_query"
    /\ ~IsSafeQuery(call.query) \/ ~call.engine.ok

\* C7: the executor returns a QueryResult for every statement; when the safety
\* policy rejects the statement or the engine fails, the result has the error set,
\* no rows and rowcount 0, the orchestrator writes the failure into the error slot
\* and state.results stays absent.
C7_FailureIsCaptured ==
    call.op = "db_execute_query" =>
        /\ ~call.raised
        /\ DOMAIN call.result = {"rows", "columns", "rowcount", "sql", "params", "error"}
        /\ ExecutionFailed <=> call.result.error # None
        /\ ExecutionFailed =>
              /\ call.result.rows = <<>>
              /\ call.result.rowcount = 0
              /\ state.results = None
              /\ error_log # <<>>
              /\ error_log[1] = [stage |-> "execute_query",
                                 error |-> "Query execution failed: " \o call.result.error[1]]
              /\ pc = "synthesize_answer" => state.error = Some(error_log[1].error)

\* the engine failed on a statement the safety policy admitted
C7_Witness ==
    /\ pc = "synthesize_answer"
    /\ call.op = "db_execute_query"
    /\ IsSafeQuery(call.query)
    /\ ~call.engine.ok
    /\ engine_calls # <<>>
    /\ state.error = Some("Query execution failed: Database error: " \o SqliteErrorText)

\* the safety policy rejected the statement of the plan
C7_WitnessRejected ==
    /\ pc = "synthesize_answer"
    /\ call.op = "db_execute_query"
    /\ ~IsSafeQuery(call.query)
    /\ engine_calls = <<>>
    /\ state.error = Some("Query execution failed: " \o UnsafeMessage)

\* C10: whenever parse_intent returns is_comparison = true with a time_range
\* (start, end), comparison_period is present, ends where time_range begins and is
\* as long as time_range: it is (start - (end - start), start).
C10_PreviousPeriodAdjacent ==
    (Has(state.metadata, "intent") /\ state.metadata["intent"].is_comparison) =>
        \E it \in {state.metadata["intent"]} :
            /\ None \notin Range(it.time_range)
            /\ it.comparison_period # None
            /\ None \notin Range(it.comparison_period)
            /\ it.comparison_period[2][1] = it.time_range[1][1]
            /\ it.comparison_period[2][1] - it.comparison_period[1][1]
                 = it.time_range[2][1] - it.time_range[1][1]
            /\ it.comparison_period[1][1]
                 = it.time_range[1][1] - (it.time_range[2][1] - it.time_range[1][1])

\* parse_intent returned a comparison of February 2025 (asked on 31 March 2025
\* for "last month") with the 27 days before it
C10_Witness ==
    /\ pc = "resolve_categories"
    /\ Has(state.metadata, "intent")
    /\ state.metadata["intent"].is_comparison
    /\ state.metadata["intent"].time_range = <<Some(Ordinal(2025, 2, 1)), Some(Ordinal(2025, 2, 28))>>
    /\ state.metadata["intent"].comparison_period
         = <<Some(Ordinal(2025, 1, 5)), Some(Ordinal(2025, 2, 1))>>

-----------------------------------------------------------------------------
(* Properties of the two periods of a comparison *)

\* the dates a clause "date >= :start AND date <= :end" admits for the range
C11_Days(range) == range[1][1]..range[2][1]

\* C11: for a comparison that the compiler turned into a plan with the inclusive
\* bounds date >= :time_start AND date <= :time_end, no date lies both in
\* time_range and in comparison_period.
C11_NoDateInBothPeriods ==
    (/\ Has(state.metadata, "intent")
     /\ state.metadata["intent"].is_comparison
     /\ state.sql_plan # None
     /\ Contains(state.sql_plan[1].query, "date >= :time_start AND date <= :time_end")) =>
        C11_Days(state.metadata["intent"].time_range)
            \cap C11_Days(state.metadata["intent"].comparison_period) = {}

\* C12: for the current range [2025-09-01, 2025-09-30] the comparison period that
\* parse_intent derives is [2025-08-02, 2025-09-01].
C12_SeptemberComparison ==
    (/\ Has(state.metadata, "intent")
     /\ state.metadata["intent"].is_comparison
     /\ state.metadata["intent"].time_range
          = <<Some(Ordinal(2025, 9, 1)), Some(Ordinal(2025, 9, 30))>>) =>
        state.metadata["intent"].comparison_period
          = <<Some(Ordinal(2025, 8, 2)), Some(Ordinal(2025, 9, 1))>>

-----------------------------------------------------------------------------
(* Properties of intent extraction *)

\* the text of the invocation in lower case contains one of the words
C16_Says(words) == \E w \in words : Contains(Lower(state.user_query.text), w)

\* parse_intent was called in this invocation: _parse_intent found a query text
C16_Parsed ==
    /\ "parse_intent" \in Range(visited)
    /\ state.user_query.text # ""
    /\ ~state.user_query.coerced

\* C16: parse_intent returns an intent for every text; its intent_type is that of
\* the first rule that matches, in the order category breakdown, top items,
\* comparison, else spending_over_time; is_comparison is true exactly for
\* comparison; and without a time phrase time_range is the 30 days up to today.
C16_FirstRuleWins ==
    C16_Parsed =>
        /\ Has(state.metadata, "intent")
        /\ \E it \in {state.metadata["intent"]} :
              /\ it.intent_type =
                    IF C16_Says({"by category", "per category", "categories"})
                    THEN Some("spending_by_category")
                    ELSE IF C16_Says({"top ", "highest ", "most expensive"})
                    THEN Some("top_items")
                    ELSE IF C16_Says({"compare", "vs", "versus"})
                    THEN Some("comparison")
                    ELSE Some("spending_over_time")
              /\ it.is_comparison <=> it.intent_type = Some("comparison")
              /\ ~C16_Says({"last month", "this month", "last 30 days", "past month",
                            "last 7 days", "past week", "yesterday"}) =>
                    \E today \in Todays : it.time_range = <<Some(today - 30), Some(today)>>

\* a text with a comparison word and a category-breakdown phrase was parsed as a
\* category breakdown
C16_Witness ==
    /\ C16_Parsed
    /\ state.user_query.text = "Compare spending by category"
    /\ state.metadata["intent"].intent_type = Some("spending_by_category")
    /\ ~state.metadata["intent"].is_comparison
    /\ state.metadata["intent"].time_range[2][1] - state.metadata["intent"].time_range[1][1] = 30

\* a text with a comparison word and "top " was parsed as top_items
C16_WitnessTop ==
    /\ C16_Parsed
    /\ state.user_query.text = "Compare top 5 stores"
    /\ state.metadata["intent"].intent_type = Some("top_items")
    /\ state.metadata["intent"].limit = Some(5)

\* the invocation was asked for the top 3 of something and plan_sql has run
C17_AskedTopThree ==
    /\ StartsWith(Lower(state.user_query.text), "top 3 ")
    /\ ~state.user_query.coerced
    /\ "plan_sql" \in Range(visited)

\* C17: for 'top 3 merchants' and the other 'top 3 <items>' queries the intent is
\* top_items with limit 3, neither intent extraction nor planning sets the error
\* slot, and the plan's text has the literal LIMIT 3 and no limit parameter.
C17_TopThreeIsPlanned ==
    C17_AskedTopThree =>
        /\ Has(state.metadata, "intent")
        /\ state.metadata["intent"].intent_type = Some("top_items")
        /\ state.metadata["intent"].limit = Some(3)
        /\ \A i \in 1..Len(error_log) : error_log[i].stage \notin {"parse_intent", "plan_sql"}
        /\ state.sql_plan # None
        /\ Contains(state.sql_plan[1].query, "LIMIT 3\n")
        /\ ~Contains(state.sql_plan[1].query, "LIMIT :")
        /\ ~Has(state.sql_plan[1].params, "limit")

-----------------------------------------------------------------------------
(* Properties of compiling twice *)

-----------------------------------------------------------------------------
(* Properties of the edge that follows execute_query *)

\* the decision table of the chart: s has no error, it has rows, and its intent is a
\* time series or a comparison, or a category breakdown of 2 to 20 rows
C19_ChartIsDue(s) ==
    /\ s.error = None
    /\ s.results # None
    /\ s.results[1].rowcount > 0
    /\ Has(s.metadata, "intent")
    /\ \/ s.metadata["intent"].intent_type \in {Some("spending_over_time"), Some("comparison")}
       \/ /\ s.metadata["intent"].intent_type = Some("spending_by_category")
          /\ 1 < s.results[1].rowcount
          /\ s.results[1].rowcount <= 20

\* the step out of execute_query leads to generate_chart if and only if the
\* decision table asks for a chart of the state execute_query returned; in every
\* other case, also when the error slot is set, it leads to synthesize_answer
C19_EdgeFollowsTable ==
    [][pc = "execute_query" =>
          /\ pc' \in {"generate_chart", "synthesize_answer"}
          /\ pc' = "generate_chart" <=> C19_ChartIsDue(state')]_vars

\* generate_chart_spec, given the results and the intent of s as _generate_chart
\* gives them, returns a chart
C19_SelectorCharts(s) ==
    /\ ~NoRows(s)
    /\ Has(s.metadata, "intent")
    /\ ~ChartSpecOfQueryResult(s.results[1], s.metadata["intent"]).raised
    /\ ChartSpecOfQueryResult(s.results[1], s.metadata["intent"]).value # None

\* C19: the step out of execute_query leads to generate_chart if and only if the
\* chart selector does not abstain for the results and the intent of the state
\* execute_query returned (which is when the decision table asks for a chart); in
\* every other case, also when the error slot is set, it leads to synthesize_answer
C19_ChartEdge ==
    [][pc = "execute_query" =>
          /\ pc' \in {"generate_chart", "synthesize_answer"}
          /\ pc' = "generate_chart" <=> C19_ChartIsDue(state')
          /\ pc' = "generate_chart" <=> C19_SelectorCharts(state')]_vars

\* execute_query has just returned as many categories as are still charted, and
\* generate_chart is next
C19_Witness ==
    /\ pc = "generate_chart"
    /\ visited[Len(visited)] = "execute_query"
    /\ state.metadata["intent"].intent_type = Some("spending_by_category")
    /\ state.results[1].rowcount = 20

\* execute_query has just returned one category more, and the chart is skipped
C19_WitnessSkipped ==
    /\ pc = "synthesize_answer"
    /\ visited # <<>>
    /\ visited[Len(visited)] = "execute_query"
    /\ state.error = None
    /\ state.metadata["intent"].intent_type = Some("spending_by_category")
    /\ state.results # None
    /\ state.results[1].rowcount = 21

-----------------------------------------------------------------------------
(* Properties of a failing chart generation *)

\* generate_chart_spec raises in the call _generate_chart makes from state s
C20_ChartRaises(s) ==
    /\ ~Truthy(s.error)
    /\ ~NoRows(s)
    /\ ChartSpecOfQueryResult(s.results[1], s.metadata["intent"]).raised

\* the run went through a generate_chart in which generate_chart_spec raised
\* (the state has the results generate_chart saw, and no stage since set an error)
C20_AfterFailedChart ==
    /\ pc = "synthesize_answer"
    /\ visited # <<>>
    /\ visited[Len(visited)] = "generate_chart"

\* a failure inside generate_chart is swallowed: the error slot and chart_spec stay
\* absent, the results are unchanged and synthesize_answer is next
C20_FailureSwallowed ==
    [][(pc = "generate_chart" /\ C20_ChartRaises(state)) =>
          /\ state'.error = None
          /\ state'.chart_spec = None
          /\ state'.results = state.results
          /\ pc' = "synthesize_answer"]_vars

\* C20: a failure inside chart generation is not fatal: when generate_chart raises,
\* the error slot stays absent, chart_spec stays absent, the results are unchanged,
\* and synthesize_answer then runs on the results and produces the answer that is
\* made from them (no error, not the text of a failure)
C20_ChartFailureNotFatal ==
    [][/\ (pc = "generate_chart" /\ C20_ChartRaises(state)) =>
             /\ state'.error = None
             /\ state'.chart_spec = None
             /\ state'.results = state.results
             /\ pc' = "synthesize_answer"
       /\ C20_AfterFailedChart =>
             /\ state'.results = state.results
             /\ state'.chart_spec = None
             /\ state'.error = None
             /\ state'.answer # None
             /\ ~StartsWith(state'.answer[1].markdown, "An error occurred")
             /\ ~StartsWith(state'.answer[1].markdown, "Error")
             /\ state'.answer[1].markdown # "No results found matching your query."]_vars

-----------------------------------------------------------------------------
(* Properties of answer synthesis *)

\* C21: for a comparison result whose row has previous_value = 0, answer synthesis
\* completes without raising and the answer says that no previous data is available
\* for comparison; it shows no percent change
C21_ZeroPreviousRendered ==
    (/\ call.op = "generate_answer"
     /\ call.intent.intent_type = Some("comparison")
     /\ call.chart_spec = None
     /\ Len(call.results) > 0
     /\ call.results[1].previous_value = 0)
    => /\ ~call.result.raised
       /\ Contains(Lower(call.result.value), "no previous data available for comparison")
       /\ ~Contains(call.result.value, "%")

-----------------------------------------------------------------------------
(* Properties of sanitize_sql_identifier *)

\* the text is not empty, starts with a letter or an underscore, is made of letters,
\* digits and underscores only, and is not a reserved word in any letter case
C22_IsPlainIdentifier(t) ==
    /\ t # ""
    /\ \E a \in {UpperChars, LowerChars, "_"} : IndexIn(a, Char(t, 1)) # {}
    /\ \A i \in 1..Len(t) :
          \E a \in {UpperChars, LowerChars, DigitChars, "_"} : IndexIn(a, Char(t, i)) # {}
    /\ Lower(t) \notin sql_keywords

\* C22: sanitize_sql_identifier returns its input unchanged exactly when the input
\* is a string that is a plain identifier and not a reserved word; for every other
\* input it raises and returns nothing
C22_SanitizeAcceptsExactly ==
    call.op = "sanitize_sql_identifier" =>
        IF call.identifier # None /\ C22_IsPlainIdentifier(call.identifier[1])
        THEN ~call.result.raised /\ call.result.value = call.identifier[1]
        ELSE call.result.raised

\* the same for the inputs that do not end in a newline
C22_SanitizeAcceptsExactlyOneLine ==
    (/\ call.op = "sanitize_sql_identifier"
     /\ call.identifier # None
     /\ ~\E i \in 1..Len(call.identifier[1]) : Char(call.identifier[1], i) = "\n")
    => IF C22_IsPlainIdentifier(call.identifier[1])
       THEN ~call.result.raised /\ call.result.value = call.identifier[1]
       ELSE call.result.raised

-----------------------------------------------------------------------------
(* Properties of the identifiers in compiled SQL *)

\* the table and the columns of the schema, and the names the templates give to
\* their own columns
C23_SchemaIdentifiers ==
    {"expenses", "date", "category", "tags", "merchant", "amount", "expense", "amount_clp",
     "description", "day", "time_period", "total_amount"}

\* the text that follows GROUP BY in the compiled plan is a schema identifier, and
\* the text that follows LIMIT is a number
C23_PlanNamesSchemaOnly ==
        /\ \E d \in C23_SchemaIdentifiers :
              Contains(call.result.value.query, "GROUP BY " \o d \o "\n")
        /\ \E i \in 1..Len(call.result.value.query) :
              /\ MatchAt(call.result.value.query, i, "LIMIT ")
              /\ RunEnd(call.result.value.query, i + 6, DigitSet) >= i + 6
              /\ MatchAt(call.result.value.query,
                         RunEnd(call.result.value.query, i + 6, DigitSet) + 1, "\n")

\* C23: every identifier the compiler puts into the query text comes from the fixed
\* list of schema identifiers or is an integer: for every top_items intent that
\* plan_sql accepts, the dimension in the text is a schema identifier and the limit
\* in the text is a number
C23_IdentifiersFromSchema ==
    (Compiled /\ Get(call.intent, "intent_type", None) = Some("top_items")) =>
        C23_PlanNamesSchemaOnly

\* the same for the intents whose dimension is a schema identifier and whose limit
\* is absent or an integer
C23_SchemaIntentsOnly ==
    (/\ Compiled
     /\ Get(call.intent, "intent_type", None) = Some("top_items")
     /\ Get(call.intent, "dimensions", <<"merchant">>)[1] \in C23_SchemaIdentifiers
     /\ Get(call.intent, "limit", Some(10)) # None)
    => C23_PlanNamesSchemaOnly

-----------------------------------------------------------------------------
(* Properties of the parameters of a comparison plan *)

\* the sub-query of the current period and the sub-query of the previous period
C24_CurrentPart(q) == SubSeq(q, 1, FindFrom(q, "previous_period AS", 1) - 1)

C24_PreviousPart(q) ==
    SubSeq(q, FindFrom(q, "previous_period AS", 1), FindFrom(q, "FROM current_period", 1) - 1)

\* the merged params hold the bounds of both periods under distinct names
C24_ParamsKeptApart ==
    (Compiled /\ DerivesPrevIntent(call.intent)) =>
        /\ {"time_start", "time_end", "prev_time_start", "prev_time_end"}
              \subseteq DOMAIN call.result.value.params
        /\ call.result.value.params["time_start"] = DateStr(call.intent["time_range"][1][1])
        /\ call.result.value.params["time_end"] = DateStr(call.intent["time_range"][2][1])
        /\ call.result.value.params["prev_time_start"]
              = DateStr(call.intent["comparison_period"][1][1])
        /\ call.result.value.params["prev_time_end"]
              = DateStr(call.intent["comparison_period"][2][1])

\* C24: in a compiled comparison plan the parameters of the two periods are kept
\* apart by the prev_ prefix: the merged params hold both periods' bounds under
\* distinct names, the sub-query of the previous period refers to the prefixed
\* placeholders and the sub-query of the current period to the unprefixed ones
C24_PeriodsKeptApart ==
    (Compiled /\ DerivesPrevIntent(call.intent)) =>
        /\ {"time_start", "time_end", "prev_time_start", "prev_time_end"}
              \subseteq DOMAIN call.result.value.params
        /\ Contains(C24_CurrentPart(call.result.value.query), ":time_start")
        /\ Contains(C24_CurrentPart(call.result.value.query), ":time_end")
        /\ ~Contains(C24_CurrentPart(call.result.value.query), ":prev_")
        /\ Contains(C24_PreviousPart(call.result.value.query), ":prev_time_start")
        /\ Contains(C24_PreviousPart(call.result.value.query), ":prev_time_end")
        /\ Placeholders(C24_PreviousPart(call.result.value.query))
              \subseteq {"prev_" \o k : k \in Placeholders(C24_CurrentPart(call.result.value.query))}

-----------------------------------------------------------------------------
(* Properties of the LIMIT clause of a category breakdown *)

\* C25: for a spending_by_category intent the compiled SQL contains LIMIT n exactly
\* when the limit of the intent is a present integer n, and no LIMIT clause at all
\* when the limit is absent, as it is in every intent parse_intent returns for a
\* category breakdown
C25_LimitOnlyWhenAsked ==
    (/\ state.sql_plan # None
     /\ Has(state.metadata, "intent")
     /\ state.metadata["intent"].intent_type = Some("spending_by_category"))
    => IF state.metadata["intent"].limit = None
       THEN ~Contains(state.sql_plan[1].query, "LIMIT")
       ELSE Contains(state.sql_plan[1].query,
                     "LIMIT " \o IntToStr(state.metadata["intent"].limit[1]) \o "\n")

\* the same for the intents a caller hands to the planner: LIMIT n for a limit n,
\* no LIMIT clause when the intent has no limit key
C25_LimitOfKey ==
    (Compiled /\ call.intent["intent_type"] = Some("spending_by_category")) =>
        IF ~Has(call.intent, "limit")
        THEN ~Contains(call.result.value.query, "LIMIT")
        ELSE call.intent["limit"] # None =>
                Contains(call.result.value.query,
                         "LIMIT " \o IntToStr(call.intent["limit"][1]) \o "\n")

-----------------------------------------------------------------------------
(* Properties of the time buckets *)

\* the Sunday on or before day (date.toordinal() of a Sunday is a multiple of 7)
C26_SundayOnOrBefore(day) == day - (day % 7)

\* C26: for granularity week the bucket of every date is the date of the most recent
\* Sunday on or before it: a Sunday is its own bucket, and the seven days Sunday to
\* Saturday of a week have that Sunday as their bucket
C26_WeekStartsSunday ==
    (call.op = "time_bucket" /\ call.granularity = Some("week")) =>
        call.bucket = DateStr(C26_SundayOnOrBefore(call.date))

\* the bucket of a week is a date on or before the row's date and at most six days
\* before it, and the seven days of a week that starts on Monday share it
C26_WeekStartsMonday ==
    (call.op = "time_bucket" /\ call.granularity = Some("week")) =>
        call.bucket = DateStr(call.date - ((call.date - 1) % 7))

-----------------------------------------------------------------------------
(* Properties of what add_synonym changes *)

\* no step of add_synonym removes or reorders anything: the categories, the rows of
\* the matrix and the synonyms of every category are extended at the end only, by
\* at most one category and one row
C27_NothingRemoved ==
    [][/\ IsPrefix(resolver.categories, resolver'.categories)
       /\ Len(resolver'.categories) <= Len(resolver.categories) + 1
       /\ resolver.category_embeddings # None =>
             /\ resolver'.category_embeddings # None
             /\ IsPrefix(resolver.category_embeddings[1], resolver'.category_embeddings[1])
             /\ Len(resolver'.category_embeddings[1]) <= Len(resolver.category_embeddings[1]) + 1
       /\ Len(resolver'.synonyms) >= Len(resolver.synonyms)
       /\ \A i \in 1..Len(resolver.synonyms) :
             /\ resolver'.synonyms[i].canonical = resolver.synonyms[i].canonical
             /\ IsPrefix(resolver.synonyms[i].synonyms, resolver'.synonyms[i].synonyms)
       /\ writer.pc \in {"idle", "synonym"} =>
             /\ resolver'.categories = resolver.categories
             /\ resolver'.category_embeddings = resolver.category_embeddings]_vars

\* C27: add_synonym only grows the resolver: nothing is removed or reordered, a call
\* for an existing category leaves the categories and the matrix as they are, and a
\* call for a new category has appended exactly one category and exactly one row of
\* the matrix when it comes to the synonym, so that row i of the matrix belongs to
\* categories[i] after every call
C27_AddSynonymOnlyGrows ==
    [][/\ IsPrefix(resolver.categories, resolver'.categories)
       /\ Len(resolver'.categories) <= Len(resolver.categories) + 1
       /\ Len(resolver'.synonyms) >= Len(resolver.synonyms)
       /\ \A i \in 1..Len(resolver.synonyms) :
             /\ resolver'.synonyms[i].canonical = resolver.synonyms[i].canonical
             /\ IsPrefix(resolver.synonyms[i].synonyms, resolver'.synonyms[i].synonyms)
       /\ writer.pc \in {"idle", "synonym"} =>
             /\ resolver'.categories = resolver.categories
             /\ resolver'.category_embeddings = resolver.category_embeddings
       /\ (writer.pc = "stack" /\ writer'.pc = "synonym") =>
             /\ resolver'.category_embeddings # None
             /\ resolver'.category_embeddings[1] = resolver'.categories
       /\ writer'.pc = "idle" =>
             \/ resolver'.categories = <<>> /\ resolver'.category_embeddings = None
             \/ /\ resolver'.category_embeddings # None
                /\ resolver'.category_embeddings[1] = resolver'.categories]_vars

\* the same for a resolver that has its matrix when add_synonym is called
C27_GrowsWithMatrix ==
    [][(writer.pc = "stack" /\ writer'.pc = "synonym" /\ resolver.category_embeddings # None) =>
          /\ resolver'.category_embeddings # None
          /\ resolver'.category_embeddings[1] = resolver'.categories
          /\ Len(resolver'.category_embeddings[1]) = Len(resolver.category_embeddings[1]) + 1]_vars

-----------------------------------------------------------------------------
(* Properties of the axes of a chart *)

\* column c holds a number in every row of the call's results
C28_NumericInEveryRow(c) == \A i \in 1..Len(call.results) : call.results[i][c] = "int"

\* column c holds a number in at least one row
C28_NumericInSomeRow(c) == \E i \in 1..Len(call.results) : call.results[i][c] = "int"

\* the y axis the rule asks for, x being the column chosen for the x axis: the first
\* column other than x that is numeric in every row, or, only when no such column
\* exists, the first column other than x with a number in some row
C28_YByRule(x) ==
    IF \E c \in Range(call.columns) \ {x} : C28_NumericInEveryRow(c)
    THEN FirstColumn(call.columns, {c \in Range(call.columns) \ {x} : C28_NumericInEveryRow(c)})
    ELSE FirstColumn(call.columns, {c \in Range(call.columns) \ {x} : C28_NumericInSomeRow(c)})

\* C28: whenever generate_chart_spec returns a spec, x_axis and y_axis are two
\* distinct columns of the result and y_axis is the first column other than x_axis
\* that is numeric in every row (or, only when no column is, the first column with a
\* number in some row); it returns nothing when there are no rows
C28_AxesByRule ==
    call.op = "generate_chart_spec" =>
        /\ Len(call.results) = 0 => call.result = None
        /\ call.result # None =>
              /\ call.result[1].x_axis \in Range(call.columns)
              /\ call.result[1].y_axis \in Range(call.columns)
              /\ call.result[1].x_axis # call.result[1].y_axis
              /\ Some(call.result[1].y_axis) = C28_YByRule(call.result[1].x_axis)

\* the same for results without empty cells
C28_AxesByRuleNoNulls ==
    (/\ call.op = "generate_chart_spec"
     /\ \A i \in 1..Len(call.results) : "NoneType" \notin Range(call.results[i]))
    => /\ Len(call.results) = 0 => call.result = None
       /\ call.result # None =>
             /\ call.result[1].x_axis \in Range(call.columns)
             /\ call.result[1].y_axis \in Range(call.columns)
             /\ call.result[1].x_axis # call.result[1].y_axis
             /\ Some(call.result[1].y_axis) = C28_YByRule(call.result[1].x_axis)
       /\ call.result = None =>
             \/ Len(call.results) = 0
             \/ ChartXAxis(call.columns, call.results) = None
             \/ \A c \in Range(call.columns) \ Range(ChartXAxis(call.columns, call.results)) :
                   ~C28_NumericInSomeRow(c)

-----------------------------------------------------------------------------
(* Properties of compiled plans under the safety policy *)

\* C29: every plan the compiler produces from an intent of parse_intent, comparison
\* included, is admitted by the safety policy of the executor: an invocation never
\* holds a plan that _is_safe_query refuses, and execute_query never rejects the
\* compiled plan as unsafe
C29_CompiledPlanAdmitted ==
    /\ state.sql_plan # None => IsSafeQuery(state.sql_plan[1].query)
    /\ call.op = "db_execute_query" => call.result.error # Some(UnsafeMessage)

\* the same for the plans of the three templates that are not comparisons
C29_PlainPlanAdmitted ==
    (/\ state.sql_plan # None
     /\ ~state.metadata["intent"].is_comparison)
    => /\ IsSafeQuery(state.sql_plan[1].query)
       /\ call.op = "db_execute_query" => call.result.error # Some(UnsafeMessage)

\* every plan of a comparison is refused: it opens with WITH, not with SELECT
C29_ComparisonPlanRefused ==
    (/\ state.sql_plan # None
     /\ state.metadata["intent"].is_comparison)
    => /\ StartsWith(Strip(state.sql_plan[1].query), "WITH current_period AS")
       /\ ~IsSafeQuery(state.sql_plan[1].query)

-----------------------------------------------------------------------------
(* Consistency of the slots of the pipeline state *)

\* C30: in every reachable pipeline state the slots are filled consistently: results
\* present implies sql_plan present, sql_plan present implies a parsed intent is
\* stored, chart_spec present implies results present with at least one row, and
\* results come only from a QueryResult without error, so that a failed execution
\* never leaves results set
C30_SlotsConsistent ==
    /\ state.results # None => state.sql_plan # None
    /\ state.sql_plan # None => Has(state.metadata, "intent")
    /\ state.chart_spec # None => (state.results # None /\ state.results[1].rows # <<>>)
    /\ state.results # None => state.results[1].error = None
    /\ (call.op = "db_execute_query" /\ call.result.error # None) => state.results = None

\* execute_query has stored the rows of a successful execution
C30_Witness ==
    /\ call.op = "db_execute_query"
    /\ call.result.error = None
    /\ state.results = Some(call.result)
    /\ state.results[1].rows # <<>>
    /\ state.sql_plan # None
    /\ Has(state.metadata, "intent")

\* an execution has failed and the invocation has reached its end without results
C30_WitnessFailed ==
    /\ pc = "returned"
    /\ call.op = "db_execute_query"
    /\ call.result.error # None
    /\ state.sql_plan # None
    /\ state.results = None

====
